---- MODULE Spec2Model ----
(***************************************************************************)
(* TuringOrchestrate: the event-driven workflow state machine, its event   *)
(* ledger and the decision-authority protocol                               *)
(* (src/turing-orchestrate/workflow_service.py, routers/events.py,         *)
(* routers/workflows.py).                                                   *)
(*                                                                          *)
(* Conventions.                                                             *)
(*  - A Python value that may be None, or a dict key that may be absent,   *)
(*    is an option: None is <<>> and a present value v is <<v>>.           *)
(*  - An event-type name is a sequence of tokens, so that the ingress's    *)
(*    replace(".", "_") is a real conversion.                              *)
(*  - uuid4() is modelled as a fresh value: the ledger position of the     *)
(*    event that carries it.                                                *)
(*  - The ledger is the sequence of events in insertion order.             *)
(*    created_at[i] is WorkflowEvent.created_at of events[i]: the reading  *)
(*    of datetime.utcnow at its INSERT. While the clock advances between   *)
(*    any two INSERTs (StrictClock) created_at is the ledger index, and    *)
(*    the handlers and queries that order by created_at are written on the *)
(*    index; SpecClock lets two INSERTs read the same time.                *)
(*  - The handlers and the tests read the payload column of a              *)
(*    WorkflowEvent through the attribute .data; the model reads it as the *)
(*    event's payload.                                                      *)
(*  - wf.data[...] = v is read as the handler writes it: the key of the    *)
(*    workflow's data holds v afterwards.                                   *)
(*  - tx holds, for each task that is inside a handler's transaction, what *)
(*    the task has read; a request that is served without another task     *)
(*    running in between is a single step and leaves tx alone.             *)
(*  - risk is the risk engine (src/turing-riskbrain): the scores and the   *)
(*    jurisdiction a caller holds and what the engine's pure functions    *)
(*    returned for them. A score is an integer number of 1/10000, so that *)
(*    the adjustment factors and the weights are exact.                    *)
(***************************************************************************)
EXTENDS Integers, Sequences, FiniteSets, TLC

VARIABLES workflows, events, created_at, manual_decisions, response, tx, risk

vars == <<workflows, events, created_at, manual_decisions, response, tx, risk>>

(* ---------- bounds ---------- *)

\* committed write transactions (handler commits and manual decisions) of a run
\* over Requests
MaxCommits == 2

\* committed write transactions of a run over ChainRequests
MaxChain == 3

\* handler transactions, open or committed, of a run of concurrent tasks
MaxConc == 3

\* committed write transactions of a run that is queried
MaxQuery == 2

\* calls of fuse_scores on one dictionary of scores
MaxCalls == 2

\* committed write transactions of a run on the coarse clock
MaxClock == 2

\* committed write transactions of a run over TenantRequests
MaxTenant == 2

\* committed write transactions of a run over StateRequests
MaxStates == 3

(* ---------- options ---------- *)

None == <<>>

Some(v) == <<v>>

IsSome(o) == o # None

\* Python's  a or b  on two options
OrElse(a, b) == IF IsSome(a) THEN a ELSE b

\* Python's truth value of an optional string (a token sequence): None and ""
\* are false
Truthy(o) == o # None /\ o[1] # <<>>

\* Python's  a or b  on two optional strings
StrOr(a, b) == IF Truthy(a) THEN a ELSE b

\* Python's  d.get(key, default)
GetOr(o, default) == IF IsSome(o) THEN o[1] ELSE default

(* ---------- input domains ---------- *)

WorkflowIds == {"w1", "w2"}

TenantIds == {"t1", "t2"}

SessionIds == {"w2"}

IdSessionIds == {"i1"}

\* a client-supplied correlation id
ClientCorrelation == [prefix |-> "c1", uuid |-> 0]

Signals == {"sig"}

OverrideDecisions == {"approve", "decline", "escalate"}

ManualDecisionValues == {"decline"}

Opt(S) == {None} \cup {Some(v) : v \in S}

\* the tasks that serve requests concurrently
Tasks == {"h1", "h2"}

(* ---------- event-type names ---------- *)

T_selfie_uploaded == <<"selfie", "_", "uploaded">>

T_id_uploaded == <<"id", "_", "uploaded">>

T_match_completed == <<"match", "_", "completed">>

T_risk_evaluate == <<"risk", "_", "evaluate">>

T_override_applied == <<"override", "_", "applied">>

\* event_type.replace(".", "_")
\* mutant: the type is dispatched as supplied
Normalize_identity(t) == t

Normalize(t) == [i \in DOMAIN t |-> IF t[i] = "." THEN "_" ELSE t[i]]

EVENT_HANDLERS ==
    {T_selfie_uploaded, T_id_uploaded, T_match_completed, T_risk_evaluate,
     T_override_applied}

(* ---------- risk engine results (what call_riskbrain may return) ---------- *)

RR_approve ==
    [error |-> None,
     final_risk |-> Some([score |-> Some(12), band |-> Some("low")]),
     decision |-> Some([recommendation |-> Some("approve"), requires_human |-> Some(FALSE)]),
     confidence |-> Some(95),
     factors |-> Some(<<"email_verified">>)]

RR_decline ==
    [error |-> None,
     final_risk |-> Some([score |-> Some(85), band |-> Some("critical")]),
     decision |-> Some([recommendation |-> Some("decline"), requires_human |-> Some(TRUE)]),
     confidence |-> None,
     factors |-> None]

\* a success result that recommends a manual review
RR_review ==
    [error |-> None,
     final_risk |-> Some([score |-> Some(45), band |-> Some("medium")]),
     decision |-> Some([recommendation |-> Some("review"), requires_human |-> Some(TRUE)]),
     confidence |-> Some(62),
     factors |-> None]

\* a success result that carries no decision object
RR_no_decision ==
    [error |-> None,
     final_risk |-> Some([score |-> Some(45), band |-> Some("medium")]),
     decision |-> None,
     confidence |-> None,
     factors |-> None]

\* the degraded result of call_riskbrain's except branch
RR_degraded ==
    [error |-> Some("riskbrain_unavailable"),
     final_risk |-> None,
     decision |-> None,
     confidence |-> None,
     factors |-> None]

\* the JSON object {}
RR_empty ==
    [error |-> None, final_risk |-> None, decision |-> None, confidence |-> None,
     factors |-> None]

(* ---------- risk client ---------- *)

\* client.post raised (httpx.ConnectError, httpx.ReadTimeout after 5 s)
O_connect_error == [kind |-> "ConnectError", status |-> None, body |-> None]

O_timeout == [kind |-> "ReadTimeout", status |-> None, body |-> None]

\* the service answered; body is the JSON object of the answer, None when the
\* body is not JSON
Response(status, body) == [kind |-> "response", status |-> Some(status), body |-> body]

\* what the POST to the risk service may come to
ServiceOutcomes ==
    {O_connect_error, O_timeout, Response(503, None), Response(200, None)}
    \cup {Response(200, Some(b)) : b \in {RR_approve, RR_decline, RR_no_decision, RR_empty}}

\* try: post, raise_for_status, return resp.json()
\* except Exception: return the degraded result
call_riskbrain(o) ==
    IF o.kind # "response" THEN RR_degraded
    ELSE IF o.status[1] \notin 200..299 THEN RR_degraded
    ELSE IF o.body = None THEN RR_degraded
    ELSE o.body[1]

\* what call_riskbrain may return
RiskResults == {call_riskbrain(o) : o \in ServiceOutcomes}

\* "final_risk" in risk_result
HasFinalRisk(rr) == IsSome(rr.final_risk)

(* ---------- inbound requests ---------- *)

BasePayload ==
    [tenant_id |-> None, workflow_id |-> None, session_id |-> None,
     id_session_id |-> None, match |-> None, signals |-> None,
     decision |-> None, reason |-> None, overridden_by |-> None]

PayloadsSelfie(Ts, Ws) ==
    {[BasePayload EXCEPT !.tenant_id = t, !.workflow_id = w, !.session_id = s] :
        t \in Ts, w \in Ws, s \in Opt(SessionIds)}

PayloadsId(Ts, Ws) ==
    {[BasePayload EXCEPT !.tenant_id = t, !.workflow_id = w, !.id_session_id = s] :
        t \in Ts, w \in Ws, s \in Opt(IdSessionIds)}

PayloadsMatch(Ts, Ws) ==
    {[BasePayload EXCEPT !.tenant_id = t, !.workflow_id = w, !.match = m] :
        t \in Ts, w \in Ws, m \in Opt(BOOLEAN)}

PayloadsRisk(Ts, Ws) ==
    {[BasePayload EXCEPT !.tenant_id = t, !.workflow_id = w, !.signals = g] :
        t \in Ts, w \in Ws, g \in Opt(Signals)}

PayloadsOverride(Ts, Ws, Ds) ==
    {[BasePayload EXCEPT !.tenant_id = t, !.workflow_id = w, !.decision = d] :
        t \in Ts, w \in Ws, d \in Ds}
    \cup
    {[BasePayload EXCEPT !.tenant_id = t, !.workflow_id = w, !.decision = d,
                         !.reason = Some("manual_fraud_flag"),
                         !.overridden_by = Some("op_42")] :
        t \in Ts, w \in Ws, d \in Ds \ {None}}

T_banana_peeled == <<"banana", ".", "peeled">>

T_override_dotted == <<"override", ".", "applied">>

\* the legacy field  event  names the type
Legacy(t) == [event |-> Some(t), event_type |-> None]

\* the new field  event_type  names the type
Typed(t) == [event |-> None, event_type |-> Some(t)]

Req(sp, p, c) ==
    [event |-> sp.event, event_type |-> sp.event_type, payload |-> p,
     correlation_id |-> c]

RequestsOf(spellings, payloads, corrs) ==
    {Req(sp, p, c) : sp \in spellings, p \in payloads, c \in corrs}

\* requests over both workflow ids and both tenants
Requests ==
    RequestsOf({Legacy(T_selfie_uploaded)},
               PayloadsSelfie(Opt(TenantIds), Opt({"w1"})), {None})
    \cup RequestsOf({Legacy(T_id_uploaded)},
                    PayloadsId(Opt({"t2"}), Opt(WorkflowIds)), {None})
    \cup RequestsOf({Legacy(T_match_completed)},
                    PayloadsMatch(Opt({"t1"}), Opt({"w2"})), {None})
    \cup RequestsOf({Legacy(T_risk_evaluate)},
                    PayloadsRisk(Opt(TenantIds), Opt(WorkflowIds)),
                    {None, Some(ClientCorrelation)})
    \cup RequestsOf({Typed(T_override_dotted), Legacy(T_override_applied),
                     [event |-> Some(T_banana_peeled),
                      event_type |-> Some(T_override_applied)]},
                    PayloadsOverride(Opt({"t2"}), Opt(WorkflowIds),
                                     {None, Some("decline")}),
                    {None})
    \cup RequestsOf({Typed(T_banana_peeled), Legacy(T_banana_peeled),
                     [event |-> None, event_type |-> None], Typed(<<>>)},
                    PayloadsRisk(Opt({"t1"}), {Some("w1")}), {None})

\* what the risk service answers in the runs over Requests
RequestsOutcomes == {Response(200, Some(RR_approve)), O_connect_error}

\* requests of a single tenant on a single workflow, for longer histories
ChainRequests ==
    RequestsOf({Legacy(T_selfie_uploaded)},
               PayloadsSelfie({Some("t1")}, {Some("w1")}), {None})
    \cup RequestsOf({Legacy(T_id_uploaded)},
                    {p \in PayloadsId({Some("t1")}, {Some("w1")}) :
                        IsSome(p.id_session_id)}, {None})
    \cup RequestsOf({Legacy(T_match_completed)},
                    {p \in PayloadsMatch({Some("t1")}, {Some("w1")}) :
                        IsSome(p.match)}, {None})
    \cup RequestsOf({Legacy(T_risk_evaluate)},
                    {p \in PayloadsRisk(Opt({"t1"}), {Some("w1")}) :
                        IsSome(p.signals)},
                    {Some(ClientCorrelation)})
    \cup RequestsOf({Typed(T_override_dotted)},
                    {p \in PayloadsOverride({Some("t1")}, Opt({"w1"}),
                                            Opt(OverrideDecisions)) :
                        IsSome(p.reason) \/ p.decision = None},
                    {Some(ClientCorrelation)})
    \cup RequestsOf({Typed(T_banana_peeled), Typed(<<>>)},
                    PayloadsRisk(Opt({"t1"}), {Some("w1")}), {None})

ChainOutcomes == ServiceOutcomes

\* complete requests of one tenant on one workflow: the requests that two tasks
\* serve concurrently, and the requests during which the data store fails
ConcRequests ==
    RequestsOf({Legacy(T_selfie_uploaded)},
               {p \in PayloadsSelfie({Some("t1")}, {Some("w1")}) : IsSome(p.session_id)},
               {None})
    \cup RequestsOf({Legacy(T_id_uploaded)},
                    {p \in PayloadsId({Some("t1")}, {Some("w1")}) :
                        IsSome(p.id_session_id)}, {None})
    \cup RequestsOf({Legacy(T_risk_evaluate)},
                    {p \in PayloadsRisk({Some("t1")}, {Some("w1")}) : IsSome(p.signals)},
                    {None})
    \cup RequestsOf({Typed(T_override_dotted)},
                    {p \in PayloadsOverride({Some("t1")}, {Some("w1")}, {Some("approve")}) :
                        IsSome(p.reason)},
                    {None})

(* ---------- workflow store and event ledger ---------- *)

EmptyData ==
    [selfie |-> None, id_document |-> None, match |-> None,
     risk_error |-> None, risk_result |-> None]

\* IdentityWorkflow(id, tenant_id, state="pending", data={}) after flush
NewWorkflow(workflow_id, tenant_id) ==
    [id |-> workflow_id, tenant_id |-> tenant_id, state |-> "pending",
     selfie_session_id |-> None, id_session_id |-> None,
     risk_score |-> None, risk_band |-> None, decision |-> None,
     requires_human |-> FALSE, data |-> EmptyData]

\* session.get(IdentityWorkflow, workflow_id), else a new row
\* mutant: an existing row takes the tenant of the event
get_or_create_workflow_retenanting(wfs, workflow_id, tenant_id) ==
    IF workflow_id \in DOMAIN wfs
    THEN [wfs[workflow_id] EXCEPT !.tenant_id = tenant_id]
    ELSE NewWorkflow(workflow_id, tenant_id)

get_or_create_workflow(wfs, workflow_id, tenant_id) ==
    IF workflow_id \in DOMAIN wfs THEN wfs[workflow_id]
    ELSE NewWorkflow(workflow_id, tenant_id)

\* the workflow table after the transaction's write of wf
Save(wfs, wf) ==
    [w \in DOMAIN wfs \cup {wf.id} |-> IF w = wf.id THEN wf ELSE wfs[w]]

\* session.add(WorkflowEvent(id=uuid, workflow_id=wf.id, tenant_id=wf.tenant_id, ...))
append_event(evs, wf, event_type, payload) ==
    Append(evs, [id |-> Len(evs) + 1, workflow_id |-> wf.id,
                 tenant_id |-> wf.tenant_id, event_type |-> event_type,
                 payload |-> payload])

DECISION_EVENT == "decision.finalised"

\* indices of the decision.finalised events of a workflow, ascending created_at
DecisionIdx(evs, workflow_id) ==
    {i \in DOMAIN evs : /\ evs[i].workflow_id = workflow_id
                        /\ evs[i].event_type = DECISION_EVENT}

DecisionCount(evs, workflow_id) == Cardinality(DecisionIdx(evs, workflow_id))

Min(S) == CHOOSE x \in S : \A y \in S : x <= y

Max(S) == CHOOSE x \in S : \A y \in S : x >= y

(* ---------- handler outcomes ---------- *)

\* the handler raised before commit: the session is closed without a write
Raised(wfs, evs, exc) == [raised |-> Some(exc), workflows |-> wfs, events |-> evs]

\* the handler's transaction committed
Committed(wfs, evs) == [raised |-> None, workflows |-> wfs, events |-> evs]

(* ---------- decision authority ---------- *)

\* wf.decision in ["approve", "review"]
\* mutant: only an approval may proceed
CanProceed_approve_only(decision) == decision = Some("approve")

CanProceed(decision) == decision \in {Some("approve"), Some("review")}

\* correlation_id or f"corr_{uuid.uuid4()}"
CorrelationOf(correlation_id, evs) ==
    GetOr(correlation_id, [prefix |-> "corr_", uuid |-> Len(evs) + 1])

\* the payload of the decision.finalised event of a risk evaluation
\* (subject, policy, models and evidence are constant or opaque: left out)
DecisionPayload(evs, wf, risk_result, correlation_id) ==
    [decision_id |-> [prefix |-> "dec_", wf |-> wf.id, override_hex |-> 0],
     correlation_id |-> CorrelationOf(correlation_id, evs),
     tenant_id |-> wf.tenant_id,
     decision |-> [outcome |-> wf.decision,
                   confidence |-> GetOr(risk_result.confidence, 0),
                   requires_human |-> wf.requires_human,
                   can_proceed |-> CanProceed(wf.decision)],
     risk_summary |-> [overall_risk |-> IF IsSome(risk_result.final_risk)
                                         THEN risk_result.final_risk[1].band
                                         ELSE None,
                       risk_score |-> wf.risk_score],
     reason_codes |-> GetOr(risk_result.factors, <<>>),
     lineage |-> [supersedes_decision_id |-> None, overridden_by |-> None],
     authority |-> [decided_by |-> "turing_orchestrate", override |-> None]]

\* mutant: the decision is recorded twice
emit_decision_finalised_twice(evs, wf, risk_result, correlation_id) ==
    LET evs1 == append_event(evs, wf, DECISION_EVENT,
                             DecisionPayload(evs, wf, risk_result, correlation_id))
    IN  append_event(evs1, wf, DECISION_EVENT,
                     DecisionPayload(evs1, wf, risk_result, correlation_id))

emit_decision_finalised(evs, wf, risk_result, correlation_id) ==
    append_event(evs, wf, DECISION_EVENT,
                 DecisionPayload(evs, wf, risk_result, correlation_id))

(* ---------- state transitions ---------- *)

\* mutant: the event is stamped with the tenant of the payload
handle_selfie_uploaded_stamping_payload(wfs, evs, event) ==
    LET payload == event.payload
        workflow_id == OrElse(payload.workflow_id, payload.session_id)
    IN  IF payload.tenant_id = None \/ workflow_id = None \/ payload.session_id = None
        THEN Raised(wfs, evs, "KeyError")
        ELSE LET wf0 == get_or_create_workflow(wfs, workflow_id[1], payload.tenant_id[1])
                 wf == [wf0 EXCEPT !.selfie_session_id = payload.session_id,
                                   !.state = "selfie_uploaded",
                                   !.data.selfie = Some("liveness")]
             IN  Committed(Save(wfs, wf),
                           append_event(evs, [wf EXCEPT !.tenant_id = payload.tenant_id[1]],
                                        "selfie_uploaded", payload))

handle_selfie_uploaded(wfs, evs, event) ==
    LET payload == event.payload
        workflow_id == OrElse(payload.workflow_id, payload.session_id)
    IN  IF payload.tenant_id = None \/ workflow_id = None \/ payload.session_id = None
        THEN Raised(wfs, evs, "KeyError")
        ELSE LET wf0 == get_or_create_workflow(wfs, workflow_id[1], payload.tenant_id[1])
                 wf == [wf0 EXCEPT !.selfie_session_id = payload.session_id,
                                   !.state = "selfie_uploaded",
                                   !.data.selfie = Some("liveness")]
             IN  Committed(Save(wfs, wf),
                           append_event(evs, wf, "selfie_uploaded", payload))

\* mutant: the state advances only from pending or selfie_uploaded
handle_id_uploaded_guarded(wfs, evs, event) ==
    LET p == event.payload
    IN  IF p.tenant_id = None \/ p.workflow_id = None \/ p.id_session_id = None
        THEN Raised(wfs, evs, "KeyError")
        ELSE LET wf0 == get_or_create_workflow(wfs, p.workflow_id[1], p.tenant_id[1])
                 wf == [wf0 EXCEPT !.id_session_id = p.id_session_id,
                                   !.state = IF wf0.state \in {"pending", "selfie_uploaded"}
                                             THEN "id_uploaded" ELSE @,
                                   !.data.id_document = Some("metadata")]
             IN  Committed(Save(wfs, wf), append_event(evs, wf, "id_uploaded", p))

handle_id_uploaded(wfs, evs, event) ==
    LET p == event.payload
    IN  IF p.tenant_id = None \/ p.workflow_id = None \/ p.id_session_id = None
        THEN Raised(wfs, evs, "KeyError")
        ELSE LET wf0 == get_or_create_workflow(wfs, p.workflow_id[1], p.tenant_id[1])
                 wf == [wf0 EXCEPT !.id_session_id = p.id_session_id,
                                   !.state = "id_uploaded",
                                   !.data.id_document = Some("metadata")]
             IN  Committed(Save(wfs, wf), append_event(evs, wf, "id_uploaded", p))

\* mutant: a completed match finalises a decision
handle_match_completed_deciding(wfs, evs, event) ==
    LET p == event.payload
    IN  IF p.tenant_id = None \/ p.workflow_id = None \/ p.match = None
        THEN Raised(wfs, evs, "KeyError")
        ELSE LET wf0 == get_or_create_workflow(wfs, p.workflow_id[1], p.tenant_id[1])
                 wf == [wf0 EXCEPT !.id_session_id = OrElse(p.id_session_id, @),
                                   !.data.match = Some([is_match |-> p.match[1]]),
                                   !.decision = IF p.match[1] THEN Some("approve")
                                                ELSE Some("decline"),
                                   !.state = IF p.match[1] THEN "match_verified"
                                             ELSE "match_failed"]
             IN  Committed(Save(wfs, wf),
                           append_event(emit_decision_finalised(evs, wf, RR_degraded,
                                                                event.correlation_id),
                                        wf, "match_completed", p))

handle_match_completed(wfs, evs, event) ==
    LET p == event.payload
    IN  IF p.tenant_id = None \/ p.workflow_id = None \/ p.match = None
        THEN Raised(wfs, evs, "KeyError")
        ELSE LET wf0 == get_or_create_workflow(wfs, p.workflow_id[1], p.tenant_id[1])
                 wf == [wf0 EXCEPT !.id_session_id = OrElse(p.id_session_id, @),
                                   !.data.match = Some([is_match |-> p.match[1]]),
                                   !.state = IF p.match[1] THEN "match_verified"
                                             ELSE "match_failed"]
             IN  Committed(Save(wfs, wf), append_event(evs, wf, "match_completed", p))

\* the workflow after the risk result is written (lines 270-283)
\* mutant: the four fields are written whatever the result
ApplyRiskResult_unconditional(wf0, risk_result) ==
    LET final_risk == GetOr(risk_result.final_risk, [score |-> None, band |-> None])
        decision == GetOr(risk_result.decision,
                          [recommendation |-> None, requires_human |-> None])
    IN  [wf0 EXCEPT !.risk_score = final_risk.score,
                    !.risk_band = final_risk.band,
                    !.decision = decision.recommendation,
                    !.requires_human = GetOr(decision.requires_human, FALSE),
                    !.state = IF HasFinalRisk(risk_result)
                              THEN "risk_evaluated" ELSE "risk_failed",
                    !.data.risk_result = Some(risk_result)]

ApplyRiskResult(wf0, risk_result) ==
    IF HasFinalRisk(risk_result)
    THEN LET decision == GetOr(risk_result.decision,
                               [recommendation |-> None, requires_human |-> None])
         IN  [wf0 EXCEPT !.risk_score = risk_result.final_risk[1].score,
                         !.risk_band = risk_result.final_risk[1].band,
                         !.decision = decision.recommendation,
                         !.requires_human = GetOr(decision.requires_human, FALSE),
                         !.state = "risk_evaluated",
                         !.data.risk_result = Some(risk_result)]
    ELSE [wf0 EXCEPT !.data.risk_error = OrElse(wf0.data.risk_error, Some(risk_result)),
                     !.state = "risk_failed",
                     !.data.risk_result = Some(risk_result)]

\* risk_result is what call_riskbrain(signals) returned
\* mutant: the decision is emitted on the final_risk branch only
handle_risk_evaluation_conditional(wfs, evs, event, risk_result) ==
    LET p == event.payload
    IN  IF p.tenant_id = None \/ p.workflow_id = None
        THEN Raised(wfs, evs, "KeyError")
        ELSE LET wf0 == get_or_create_workflow(wfs, p.workflow_id[1], p.tenant_id[1])
                 wf == ApplyRiskResult(wf0, risk_result)
                 evs1 == IF HasFinalRisk(risk_result)
                         THEN emit_decision_finalised(evs, wf, risk_result,
                                                      event.correlation_id)
                         ELSE evs
             IN  Committed(Save(wfs, wf),
                           append_event(evs1, wf, "risk_evaluated",
                                        [signals |-> GetOr(p.signals, "{}"),
                                         result |-> risk_result]))

handle_risk_evaluation(wfs, evs, event, risk_result) ==
    LET p == event.payload
    IN  IF p.tenant_id = None \/ p.workflow_id = None
        THEN Raised(wfs, evs, "KeyError")
        ELSE LET wf0 == get_or_create_workflow(wfs, p.workflow_id[1], p.tenant_id[1])
                 wf == ApplyRiskResult(wf0, risk_result)
                 evs1 == emit_decision_finalised(evs, wf, risk_result,
                                                 event.correlation_id)
             IN  Committed(Save(wfs, wf),
                           append_event(evs1, wf, "risk_evaluated",
                                        [signals |-> GetOr(p.signals, "{}"),
                                         result |-> risk_result]))

\* the ORIGINAL decision: first row of the decision.finalised events of the
\* workflow ordered by created_at ascending
\* mutant: the query orders by created_at descending
OriginalDecisionIdx_latest(evs, workflow_id) == Max(DecisionIdx(evs, workflow_id))

OriginalDecisionIdx(evs, workflow_id) == Min(DecisionIdx(evs, workflow_id))

\* original_decision.data.get("decision_id")
\* mutant: the lineage is left empty
SupersedesOf_none(original_decision) == None

SupersedesOf(original_decision) == Some(original_decision.payload.decision_id)

\* the payload of the decision.finalised event of an override (lines 354-407)
\* mutant: confidence and reason codes are taken over from the original decision
OverrideDecisionPayload_inheriting(evs, wf, original_decision, event) ==
    LET payload == event.payload
        override_reason == GetOr(payload.reason, "manual_override")
    IN  [decision_id |-> [prefix |-> "dec_", wf |-> wf.id, override_hex |-> Len(evs) + 1],
         correlation_id |-> CorrelationOf(event.correlation_id, evs),
         tenant_id |-> wf.tenant_id,
         decision |-> [outcome |-> payload.decision,
                       confidence |-> original_decision.payload.decision.confidence,
                       requires_human |-> FALSE,
                       can_proceed |-> CanProceed(payload.decision)],
         risk_summary |-> [overall_risk |-> wf.risk_band, risk_score |-> wf.risk_score],
         reason_codes |-> original_decision.payload.reason_codes,
         lineage |-> [supersedes_decision_id |-> SupersedesOf(original_decision),
                      overridden_by |-> Some(GetOr(payload.overridden_by, "human_operator"))],
         authority |-> [decided_by |-> "human_operator", override |-> Some(TRUE)]]

OverrideDecisionPayload(evs, wf, original_decision, event) ==
    LET payload == event.payload
        override_reason == GetOr(payload.reason, "manual_override")
    IN  [decision_id |-> [prefix |-> "dec_", wf |-> wf.id, override_hex |-> Len(evs) + 1],
         correlation_id |-> CorrelationOf(event.correlation_id, evs),
         tenant_id |-> wf.tenant_id,
         decision |-> [outcome |-> payload.decision,
                       confidence |-> 100,
                       requires_human |-> FALSE,
                       can_proceed |-> CanProceed(payload.decision)],
         risk_summary |-> [overall_risk |-> wf.risk_band, risk_score |-> wf.risk_score],
         reason_codes |-> <<override_reason>>,
         lineage |-> [supersedes_decision_id |-> SupersedesOf(original_decision),
                      overridden_by |-> Some(GetOr(payload.overridden_by, "human_operator"))],
         authority |-> [decided_by |-> "human_operator", override |-> Some(TRUE)]]

\* lines 340-430: the writes of an override whose checks passed
\* mutant: the superseded decision is marked as overridden in place
ApplyOverride_marking_original(wfs, evs, wf0, original_decision, event) ==
    LET payload == event.payload
        wf == [wf0 EXCEPT !.decision = payload.decision,
                          !.requires_human = FALSE,
                          !.state = "override_applied"]
        by == GetOr(payload.overridden_by, "human_operator")
        evs0 == [evs EXCEPT ![original_decision.id].payload.lineage.overridden_by =
                                Some(by)]
        evs1 == append_event(evs0, wf, DECISION_EVENT,
                             OverrideDecisionPayload(evs0, wf, original_decision, event))
        evs2 == append_event(evs1, wf, "override.applied",
                    [original_decision |-> original_decision.payload.decision.outcome,
                     new_decision |-> payload.decision,
                     reason |-> GetOr(payload.reason, "manual_override"),
                     overridden_by |-> by])
    IN  Committed(Save(wfs, wf), evs2)

ApplyOverride(wfs, evs, wf0, original_decision, event) ==
    LET payload == event.payload
        wf == [wf0 EXCEPT !.decision = payload.decision,
                          !.requires_human = FALSE,
                          !.state = "override_applied"]
        evs1 == append_event(evs, wf, DECISION_EVENT,
                             OverrideDecisionPayload(evs, wf, original_decision, event))
        evs2 == append_event(evs1, wf, "override.applied",
                    [original_decision |-> original_decision.payload.decision.outcome,
                     new_decision |-> payload.decision,
                     reason |-> GetOr(payload.reason, "manual_override"),
                     overridden_by |-> GetOr(payload.overridden_by, "human_operator")])
    IN  Committed(Save(wfs, wf), evs2)

\* mutant: without a prior decision the workflow is still overridden
handle_override_applied_unchecked(wfs, evs, event) ==
    LET workflow_id == event.payload.workflow_id
    IN  IF workflow_id = None
        THEN Raised(wfs, evs, "ValueError: workflow_id is required for override.applied")
        ELSE IF workflow_id[1] \notin DOMAIN wfs
        THEN Raised(wfs, evs, "ValueError: Workflow not found")
        ELSE IF DecisionIdx(evs, workflow_id[1]) = {}
        THEN Committed(Save(wfs, [wfs[workflow_id[1]] EXCEPT
                                      !.decision = event.payload.decision,
                                      !.requires_human = FALSE,
                                      !.state = "override_applied"]),
                       evs)
        ELSE ApplyOverride(wfs, evs, wfs[workflow_id[1]],
                           evs[OriginalDecisionIdx(evs, workflow_id[1])], event)

\* mutant: the workflow is fetched with get_or_create_workflow
handle_override_applied_creating(wfs, evs, event) ==
    LET workflow_id == event.payload.workflow_id
    IN  IF workflow_id = None
        THEN Raised(wfs, evs, "ValueError: workflow_id is required for override.applied")
        ELSE IF DecisionIdx(evs, workflow_id[1]) = {}
        THEN Raised(wfs, evs, "ValueError: No original decision found")
        ELSE ApplyOverride(wfs, evs,
                           get_or_create_workflow(wfs, workflow_id[1],
                                                  event.payload.tenant_id[1]),
                           evs[OriginalDecisionIdx(evs, workflow_id[1])], event)

handle_override_applied(wfs, evs, event) ==
    LET workflow_id == event.payload.workflow_id
    IN  IF workflow_id = None
        THEN Raised(wfs, evs, "ValueError: workflow_id is required for override.applied")
        ELSE IF workflow_id[1] \notin DOMAIN wfs
        THEN Raised(wfs, evs, "ValueError: Workflow not found")
        ELSE IF DecisionIdx(evs, workflow_id[1]) = {}
        THEN Raised(wfs, evs, "ValueError: No original decision found")
        ELSE ApplyOverride(wfs, evs, wfs[workflow_id[1]],
                           evs[OriginalDecisionIdx(evs, workflow_id[1])], event)

(* ---------- dispatcher and ingress ---------- *)

Reply(wfs, evs, code, body) ==
    [workflows |-> wfs, events |-> evs, response |-> [code |-> code, body |-> body]]

\* EVENT_HANDLERS.get(event_type) applied to the event
\* mutant: a workflow in state override_applied takes no further event
RunHandler_terminal(wfs, evs, event, risk_result) ==
    IF /\ event.event # T_override_applied
       /\ IsSome(event.payload.workflow_id)
       /\ event.payload.workflow_id[1] \in DOMAIN wfs
       /\ wfs[event.payload.workflow_id[1]].state = "override_applied"
    THEN Raised(wfs, evs, "ValueError")
    ELSE
    CASE event.event = T_selfie_uploaded -> handle_selfie_uploaded(wfs, evs, event)
      [] event.event = T_id_uploaded -> handle_id_uploaded(wfs, evs, event)
      [] event.event = T_match_completed -> handle_match_completed(wfs, evs, event)
      [] event.event = T_risk_evaluate ->
            handle_risk_evaluation(wfs, evs, event, risk_result)
      [] event.event = T_override_applied -> handle_override_applied(wfs, evs, event)

RunHandler(wfs, evs, event, risk_result) ==
    CASE event.event = T_selfie_uploaded -> handle_selfie_uploaded(wfs, evs, event)
      [] event.event = T_id_uploaded -> handle_id_uploaded(wfs, evs, event)
      [] event.event = T_match_completed -> handle_match_completed(wfs, evs, event)
      [] event.event = T_risk_evaluate ->
            handle_risk_evaluation(wfs, evs, event, risk_result)
      [] event.event = T_override_applied -> handle_override_applied(wfs, evs, event)

\* mutant: the handler table is indexed without a default
dispatch_event_strict(wfs, evs, event, risk_result) ==
    IF event.event \notin EVENT_HANDLERS
    THEN Reply(wfs, evs, 500, [detail |-> "KeyError"])
    ELSE LET r == RunHandler(wfs, evs, event, risk_result)
         IN  IF IsSome(r.raised)
             THEN Reply(r.workflows, r.events, 500, [detail |-> r.raised[1]])
             ELSE Reply(r.workflows, r.events, 202,
                        [status |-> "ok", processed |-> event.event])

\* an exception that leaves the handler is the framework's 500
dispatch_event(wfs, evs, event, risk_result) ==
    IF event.event \notin EVENT_HANDLERS
    THEN Reply(wfs, evs, 202,
               [status |-> "ignored",
                reason |-> <<"unknown_event_type:">> \o event.event])
    ELSE LET r == RunHandler(wfs, evs, event, risk_result)
         IN  IF IsSome(r.raised)
             THEN Reply(r.workflows, r.events, 500, [detail |-> r.raised[1]])
             ELSE Reply(r.workflows, r.events, 202,
                        [status |-> "ok", processed |-> event.event])

\* event_type = ev.event_type or ev.event
RequestType(ev) == StrOr(ev.event_type, ev.event)

\* the event dict built for the dispatcher (lines 57-62)
EventOf(ev) ==
    [event |-> Normalize(RequestType(ev)[1]), payload |-> ev.payload,
     correlation_id |-> ev.correlation_id]

\* mutant: the tenant check is skipped
ingest_event_no_tenant_check(wfs, evs, ev, risk_result) ==
    IF ~Truthy(RequestType(ev))
    THEN Reply(wfs, evs, 400, [detail |-> "Either 'event' or 'event_type' is required"])
    ELSE dispatch_event(wfs, evs, EventOf(ev), risk_result)

ingest_event(wfs, evs, ev, risk_result) ==
    IF ev.payload.tenant_id = None
    THEN Reply(wfs, evs, 400, [detail |-> "payload.tenant_id is required"])
    ELSE IF ~Truthy(RequestType(ev))
    THEN Reply(wfs, evs, 400, [detail |-> "Either 'event' or 'event_type' is required"])
    ELSE dispatch_event(wfs, evs, EventOf(ev), risk_result)

\* where ingest_event takes the request
Route(ev) ==
    IF ev.payload.tenant_id = None \/ ~Truthy(RequestType(ev)) THEN <<"rejected">>
    ELSE IF EventOf(ev).event \notin EVENT_HANDLERS THEN <<"ignored">>
    ELSE EventOf(ev).event

(* ---------- the handler's transaction ---------- *)

\* the statements the session sends for the handler outcome r on the store
\* (wfs, evs): the INSERT of a workflow row that get_or_create_workflow
\* flushes, the UPDATE of the workflow row, the INSERT of each appended event
Statements(wfs, evs, r) ==
    LET created == {w \in DOMAIN r.workflows : w \notin DOMAIN wfs}
        updated == {w \in DOMAIN r.workflows :
                       IF w \in DOMAIN wfs THEN wfs[w] # r.workflows[w]
                       ELSE r.workflows[w] # NewWorkflow(w, r.workflows[w].tenant_id)}
        inserts == IF created = {} THEN <<>>
                   ELSE LET w == CHOOSE w \in created : TRUE
                        IN  <<[kind |-> "INSERT identity_workflow",
                               row |-> NewWorkflow(w, r.workflows[w].tenant_id)]>>
        updates == IF updated = {} THEN <<>>
                   ELSE LET w == CHOOSE w \in updated : TRUE
                        IN  <<[kind |-> "UPDATE identity_workflow",
                               row |-> r.workflows[w]]>>
        appends == [i \in 1..(Len(r.events) - Len(evs)) |->
                       [kind |-> "INSERT identity_workflow_event",
                        row |-> r.events[Len(evs) + i]]]
    IN  inserts \o updates \o appends

\* the store after the statements stmts
RECURSIVE Execute(_, _, _)
Execute(wfs, evs, stmts) ==
    IF stmts = <<>> THEN [workflows |-> wfs, events |-> evs]
    ELSE LET st == Head(stmts)
         IN  IF st.kind = "INSERT identity_workflow_event"
             THEN Execute(wfs, Append(evs, st.row), Tail(stmts))
             ELSE Execute(Save(wfs, st.row), evs, Tail(stmts))

\* the data store fails at statement fail_at of the transaction; one past the
\* last statement is the COMMIT, 0 is no failure
Fails(stmts, fail_at) == fail_at \in 1..(Len(stmts) + 1)

\* mutant: every statement is committed as it is executed
Transact_autocommit(wfs, evs, r, fail_at) ==
    LET stmts == Statements(wfs, evs, r)
    IN  IF IsSome(r.raised) \/ ~Fails(stmts, fail_at) THEN r
        ELSE LET done == Execute(wfs, evs, SubSeq(stmts, 1, fail_at - 1))
             IN  [raised |-> Some("OperationalError"),
                  workflows |-> done.workflows, events |-> done.events]

\* async with async_session() as session / async with session.begin(): the
\* statements of the handler run in one transaction; an exception leaves the
\* block, the transaction is rolled back and the exception propagates
Transact(wfs, evs, r, fail_at) ==
    IF IsSome(r.raised) \/ ~Fails(Statements(wfs, evs, r), fail_at) THEN r
    ELSE Raised(wfs, evs, "OperationalError")

\* the handler of the event, run while the data store fails at fail_at
RunHandlerInTransaction(wfs, evs, event, risk_result, fail_at) ==
    Transact(wfs, evs, RunHandler(wfs, evs, event, risk_result), fail_at)

(* ---------- risk engine: fusion, band and decision ---------- *)

\* 1.0 as a score
One == 10000

\* component scores in [0,1]; the AML scores lie around the policy thresholds
ScoreValues == {0, 5000, One}

AmlValues == {0, 4500, 4600, 5000, 5100, 5500, 5600, 6000, 6100, One}

Scores ==
    [fraud : ScoreValues, aml : AmlValues, credit : ScoreValues,
     liquidity : ScoreValues]

Jurisdictions == {"default", "AU", "EU", "GCC", "au", "eu", "Europe", "unknown"}

\* str.upper() on the jurisdictions
Upper(j) ==
    CASE j = "default" -> "DEFAULT"
      [] j = "au" -> "AU"
      [] j = "eu" -> "EU"
      [] j = "Europe" -> "EUROPE"
      [] j = "unknown" -> "UNKNOWN"
      [] OTHER -> j

\* ScoreFusion.__init__: the default weights, in hundredths
weights == [fraud |-> 35, aml |-> 30, credit |-> 20, liquidity |-> 15]

\* min(x * factor, 1.0), factor in hundredths
Scaled(x, factor) == Min({(x * factor) \div 100, One})

\* the adjusted copy of the scores; scores is the caller's dictionary after
\* the call
\* mutant: the adjustment is written into the caller's dictionary
_apply_jurisdiction_adjustments_in_place(scores, jurisdiction) ==
    LET adjusted ==
            IF Upper(jurisdiction) \in {"EU", "EUROPE"}
            THEN [scores EXCEPT !.aml = Scaled(scores.aml, 120)]
            ELSE IF Upper(jurisdiction) \in {"AU", "AUSTRALIA"}
            THEN [scores EXCEPT !.credit = Scaled(scores.credit, 115)]
            ELSE IF Upper(jurisdiction) \in {"GCC", "GULF"}
            THEN [scores EXCEPT !.aml = Scaled(scores.aml, 125)]
            ELSE scores
    IN  [scores |-> adjusted, adjusted |-> adjusted]

_apply_jurisdiction_adjustments(scores, jurisdiction) ==
    LET adjusted ==
            IF Upper(jurisdiction) \in {"EU", "EUROPE"}
            THEN [scores EXCEPT !.aml = Scaled(scores.aml, 120)]
            ELSE IF Upper(jurisdiction) \in {"AU", "AUSTRALIA"}
            THEN [scores EXCEPT !.credit = Scaled(scores.credit, 115)]
            ELSE IF Upper(jurisdiction) \in {"GCC", "GULF"}
            THEN [scores EXCEPT !.aml = Scaled(scores.aml, 125)]
            ELSE scores
    IN  [scores |-> scores, adjusted |-> adjusted]

\* ScoreFusion.fuse_scores: the composite, in 1/1000000, and the caller's
\* dictionary after the call
fuse_scores(scores, jurisdiction) ==
    LET a == _apply_jurisdiction_adjustments(scores, jurisdiction)
        composite == a.adjusted.fraud * weights.fraud + a.adjusted.aml * weights.aml
                     + a.adjusted.credit * weights.credit
                     + a.adjusted.liquidity * weights.liquidity
    IN  [composite |-> Min({Max({composite, 0}), 100 * One}), scores |-> a.scores]

\* TuringRiskBrain._determine_risk_level: avg_score is the sum over 4, so
\* avg_score >= 0.8 is sum >= 4 * 0.8
_determine_risk_level(fraud, aml, credit, liquidity) ==
    LET sum == fraud + aml + credit + liquidity
    IN  IF sum >= 4 * 8000 THEN "critical"
        ELSE IF sum >= 4 * 6000 THEN "high"
        ELSE IF sum >= 4 * 4000 THEN "medium"
        ELSE "low"

\* DecisionEngine._default_policies: the aml_threshold of each policy
_default_policies ==
    [default |-> [aml_threshold |-> 6000], au |-> [aml_threshold |-> 5500],
     eu |-> [aml_threshold |-> 5000], gcc |-> [aml_threshold |-> 4500]]

RiskLevels == {"low", "medium", "high", "critical", "unknown"}

\* DecisionEngine._apply_policies
_apply_policies(risk_level, jurisdiction, assessment) ==
    LET policy == IF jurisdiction \in DOMAIN _default_policies
                  THEN _default_policies[jurisdiction]
                  ELSE _default_policies["default"]
    IN  IF risk_level = "critical" THEN "decline"
        ELSE IF risk_level = "high" THEN "review"
        ELSE IF risk_level = "medium"
        THEN IF GetOr(assessment.aml_score, 0) > policy.aml_threshold
             THEN "review" ELSE "approve"
        ELSE "approve"

\* DecisionEngine.decide (the reasoning text is left out)
decide(assessment) ==
    LET risk_level == assessment.overall_risk
        jurisdiction == assessment.jurisdiction
        decision == _apply_policies(risk_level, jurisdiction, assessment)
    IN  [decision |-> decision, jurisdiction |-> jurisdiction,
         risk_level |-> risk_level,
         requires_review |-> decision = "review",
         can_proceed |-> decision \in {"approve", "review"}]

\* a caller's scores and jurisdiction, before any call of the engine
RiskInput(scores, jurisdiction) ==
    [scores |-> scores, jurisdiction |-> jurisdiction, composites |-> <<>>,
     level |-> None, decision |-> None]

(* ---------- the model's bound ---------- *)

\* every committed handler appends exactly one event that is not a decision
CommitCount ==
    Cardinality({i \in DOMAIN events : events[i].event_type # DECISION_EVENT})
    + Len(manual_decisions)

(* ---------- the clock ---------- *)

\* what the clock advances between two INSERTs: always, or not always
StrictClock == {1}

CoarseClock == {0, 1}

\* created_at = Column(DateTime, default=datetime.utcnow): each inserted row
\* takes the reading of the clock, the previous reading plus a tick
RECURSIVE Stamped(_, _)
Stamped(stamps, ticks) ==
    IF ticks = <<>> THEN stamps
    ELSE Stamped(Append(stamps, (IF stamps = <<>> THEN 0 ELSE stamps[Len(stamps)])
                                + Head(ticks)),
                 Tail(ticks))

\* the rows appended to the ledger in this step are stamped
InsertedAt(Ts) ==
    IF Len(events') = Len(events) THEN created_at' = created_at
    ELSE \E ticks \in [1..(Len(events') - Len(events)) -> Ts] :
            created_at' = Stamped(created_at, ticks)

(* ---------- actions ---------- *)

Init ==
    /\ workflows = [w \in {} |-> NewWorkflow(w, "t1")]
    /\ events = <<>>
    /\ created_at = <<>>
    /\ manual_decisions = <<>>
    /\ response = None
    /\ tx = [h \in Tasks |-> None]
    /\ risk = RiskInput([fraud |-> 0, aml |-> 0, credit |-> 0, liquidity |-> 0],
                        "default")

\* POST /event with request ev; risk_result is the risk engine's answer,
\* read only by the risk_evaluate handler
\* the clock advances by one of the ticks Ts before each INSERT
IngestAt(ev, risk_result, Ts) ==
    LET r == ingest_event(workflows, events, ev, risk_result)
    IN  /\ workflows' = r.workflows
        /\ events' = r.events
        /\ InsertedAt(Ts)
        /\ response' = Some(r.response)
        /\ UNCHANGED <<manual_decisions, tx, risk>>

Ingest(ev, risk_result) == IngestAt(ev, risk_result, StrictClock)

\* each operation runs until  bound  transactions have committed

IngestRejected(Rs, bound) ==
    /\ CommitCount < bound
    /\ \E ev \in Rs : Route(ev) = <<"rejected">> /\ Ingest(ev, RR_degraded)

IngestIgnored(Rs, bound) ==
    /\ CommitCount < bound
    /\ \E ev \in Rs : Route(ev) = <<"ignored">> /\ Ingest(ev, RR_degraded)

SelfieUploaded(Rs, bound) ==
    /\ CommitCount < bound
    /\ \E ev \in Rs : Route(ev) = T_selfie_uploaded /\ Ingest(ev, RR_degraded)

IdUploaded(Rs, bound) ==
    /\ CommitCount < bound
    /\ \E ev \in Rs : Route(ev) = T_id_uploaded /\ Ingest(ev, RR_degraded)

MatchCompleted(Rs, bound) ==
    /\ CommitCount < bound
    /\ \E ev \in Rs : Route(ev) = T_match_completed /\ Ingest(ev, RR_degraded)

\* the handler calls call_riskbrain; o is what the call to the service comes to
RiskEvaluate(Rs, Os, bound) ==
    /\ CommitCount < bound
    /\ \E ev \in Rs, o \in Os :
          Route(ev) = T_risk_evaluate /\ Ingest(ev, call_riskbrain(o))

OverrideApplied(Rs, bound) ==
    /\ CommitCount < bound
    /\ \E ev \in Rs : Route(ev) = T_override_applied /\ Ingest(ev, RR_degraded)

\* POST /event while the data store fails at statement fail_at of the
\* handler's transaction: the exception leaves dispatch_event and is the
\* framework's 500
IngestStoreFailure(ev, risk_result, fail_at) ==
    LET r == RunHandlerInTransaction(workflows, events, EventOf(ev), risk_result,
                                     fail_at)
    IN  /\ workflows' = r.workflows
        /\ events' = r.events
        /\ InsertedAt(StrictClock)
        /\ response' = Some([code |-> 500, body |-> [detail |-> r.raised[1]]])
        /\ UNCHANGED <<manual_decisions, tx, risk>>

StoreFailure(Rs, Os, bound) ==
    /\ CommitCount < bound
    /\ \E ev \in Rs :
        \E risk_result \in (IF Route(ev) = T_risk_evaluate
                             THEN {call_riskbrain(o) : o \in Os}
                             ELSE {RR_degraded}) :
          /\ Route(ev) \in EVENT_HANDLERS
          /\ LET r == RunHandler(workflows, events, EventOf(ev), risk_result)
             IN  /\ r.raised = None
                 /\ \E fail_at \in 1..(Len(Statements(workflows, events, r)) + 1) :
                       IngestStoreFailure(ev, risk_result, fail_at)

\* POST /workflow/{workflow_id}/manual-decision
\* (the ManualDecision row is built as the endpoint writes it; its id is a
\* fresh value, here its position)
\* mutant: the endpoint emits a decision.finalised event for the manual decision
apply_manual_decision_emitting(workflow_id, body) ==
    IF workflow_id \notin DOMAIN workflows
    THEN /\ response' = Some([code |-> 404, body |-> [detail |-> "workflow not found"]])
         /\ UNCHANGED <<workflows, events, created_at, manual_decisions, tx, risk>>
    ELSE /\ manual_decisions' =
                Append(manual_decisions,
                       [id |-> Len(manual_decisions) + 1, workflow_id |-> workflow_id,
                        decision |-> body.decision, reason |-> body.reason])
         /\ workflows' = [workflows EXCEPT ![workflow_id].decision = Some(body.decision),
                                           ![workflow_id].state = "manual_decision_applied"]
         /\ events' = emit_decision_finalised(events, workflows'[workflow_id],
                                              RR_degraded, None)
         /\ InsertedAt(StrictClock)
         /\ response' = Some([code |-> 200,
                              body |-> [status |-> "ok",
                                        decision_id |-> Len(manual_decisions) + 1]])
         /\ UNCHANGED <<tx, risk>>

apply_manual_decision(workflow_id, body) ==
    IF workflow_id \notin DOMAIN workflows
    THEN /\ response' = Some([code |-> 404, body |-> [detail |-> "workflow not found"]])
         /\ UNCHANGED <<workflows, events, created_at, manual_decisions, tx, risk>>
    ELSE /\ manual_decisions' =
                Append(manual_decisions,
                       [id |-> Len(manual_decisions) + 1, workflow_id |-> workflow_id,
                        decision |-> body.decision, reason |-> body.reason])
         /\ workflows' = [workflows EXCEPT ![workflow_id].decision = Some(body.decision),
                                           ![workflow_id].state = "manual_decision_applied"]
         /\ response' = Some([code |-> 200,
                              body |-> [status |-> "ok",
                                        decision_id |-> Len(manual_decisions) + 1]])
         /\ UNCHANGED <<events, created_at, tx, risk>>

ManualDecision(Ws, bound) ==
    /\ CommitCount < bound
    /\ \E workflow_id \in Ws, d \in ManualDecisionValues :
          apply_manual_decision(workflow_id, [decision |-> d, reason |-> None])

Next ==
    \/ IngestRejected(Requests, MaxCommits)
    \/ IngestIgnored(Requests, MaxCommits)
    \/ SelfieUploaded(Requests, MaxCommits)
    \/ IdUploaded(Requests, MaxCommits)
    \/ MatchCompleted(Requests, MaxCommits)
    \/ RiskEvaluate(Requests, RequestsOutcomes, MaxCommits)
    \/ OverrideApplied(Requests, MaxCommits)
    \/ StoreFailure(ConcRequests, RequestsOutcomes, MaxCommits)
    \/ ManualDecision(WorkflowIds, MaxCommits)

Spec == Init /\ [][Next]_vars

NextChain ==
    \/ IngestRejected(ChainRequests, MaxChain)
    \/ IngestIgnored(ChainRequests, MaxChain)
    \/ SelfieUploaded(ChainRequests, MaxChain)
    \/ IdUploaded(ChainRequests, MaxChain)
    \/ MatchCompleted(ChainRequests, MaxChain)
    \/ RiskEvaluate(ChainRequests, ChainOutcomes, MaxChain)
    \/ OverrideApplied(ChainRequests, MaxChain)
    \/ StoreFailure(ConcRequests, ChainOutcomes, MaxChain)
    \/ ManualDecision({"w1"}, MaxChain)

SpecChain == Init /\ [][NextChain]_vars

\* the requests of both tenants that reach a handler and name a workflow
TenantRequests ==
    {ev \in Requests : Route(ev) \in EVENT_HANDLERS /\ IsSome(ev.payload.workflow_id)}

\* two tenants on two workflow ids, the data store not failing
NextTenant ==
    \/ SelfieUploaded(TenantRequests, MaxTenant)
    \/ IdUploaded(TenantRequests, MaxTenant)
    \/ MatchCompleted(TenantRequests, MaxTenant)
    \/ RiskEvaluate(TenantRequests, RequestsOutcomes, MaxTenant)
    \/ OverrideApplied(TenantRequests, MaxTenant)
    \/ ManualDecision(WorkflowIds, MaxTenant)

SpecTenant == Init /\ [][NextTenant]_vars

\* the complete requests of one tenant on one workflow
StateRequests ==
    {ev \in ChainRequests :
        /\ Route(ev) \in EVENT_HANDLERS
        /\ Route(ev) = T_selfie_uploaded => IsSome(ev.payload.session_id)
        /\ Route(ev) = T_override_applied =>
               IsSome(ev.payload.workflow_id) /\ IsSome(ev.payload.decision)}

StateOutcomes ==
    {Response(200, Some(RR_approve)), Response(200, Some(RR_decline)), O_connect_error}

\* every handler and the manual decision on one workflow, in any order
NextStates ==
    \/ SelfieUploaded(StateRequests, MaxStates)
    \/ IdUploaded(StateRequests, MaxStates)
    \/ MatchCompleted(StateRequests, MaxStates)
    \/ RiskEvaluate(StateRequests, StateOutcomes, MaxStates)
    \/ OverrideApplied(StateRequests, MaxStates)
    \/ ManualDecision({"w1"}, MaxStates)

SpecStates == Init /\ [][NextStates]_vars

(* ---------- concurrent handlers ---------- *)

ConcOutcomes == {Response(200, Some(RR_approve)), Response(200, Some(RR_decline))}

\* the workflow the handler of the event works on
WorkflowIdOf(event) ==
    IF event.event = T_selfie_uploaded
    THEN OrElse(event.payload.workflow_id, event.payload.session_id)[1]
    ELSE event.payload.workflow_id[1]

\* the workflow table without the row w
Without(wfs, w) == [x \in DOMAIN wfs \ {w} |-> wfs[x]]

\* the store as the session of a task holds it: the workflow row as the task
\* read it (session.get and select take no row lock), the ledger as committed
SessionView(wfs, w, read) ==
    IF read = None THEN Without(wfs, w) ELSE Save(wfs, read[1])

\* the UPDATE the session flushes: the columns whose value the handler
\* changed from the value it read; the other columns keep the committed value
FlushUpdate(current, read, written) ==
    [f \in DOMAIN written |-> IF written[f] # read[f] THEN written[f] ELSE current[f]]

OpenCount == Cardinality({h \in Tasks : IsSome(tx[h])})

\* task h starts a handler: the checks before the transaction, then the read
\* of the workflow row (and, for an override, of the original decision)
TxBegin(h, Rs, Os, bound) ==
    /\ tx[h] = None
    /\ CommitCount + OpenCount < bound
    /\ \E ev \in Rs :
        \E risk_result \in (IF Route(ev) = T_risk_evaluate
                             THEN {call_riskbrain(o) : o \in Os}
                             ELSE {RR_degraded}) :
          /\ Route(ev) \in EVENT_HANDLERS
          /\ LET event == EventOf(ev)
                 r == RunHandler(workflows, events, event, risk_result)
             IN  IF IsSome(r.raised)
                 THEN /\ response' = Some([code |-> 500, body |-> [detail |-> r.raised[1]]])
                      /\ UNCHANGED <<workflows, events, created_at, manual_decisions, tx, risk>>
                 ELSE LET w == WorkflowIdOf(event)
                      IN  /\ tx' = [tx EXCEPT ![h] =
                                       Some([event |-> event,
                                             risk_result |-> risk_result,
                                             wf |-> IF w \in DOMAIN workflows
                                                    THEN Some(workflows[w])
                                                    ELSE None])]
                          /\ UNCHANGED <<workflows, events, created_at, manual_decisions, response, risk>>

\* task h reaches the end of its transaction: the handler's writes, computed
\* from the row it read, are flushed and committed; the INSERT of a row
\* that another task created in between violates the primary key
\* mutant: the INSERT of an existing row replaces it
TxCommit_upsert(h) ==
    /\ IsSome(tx[h])
    /\ LET t == tx[h][1]
           w == WorkflowIdOf(t.event)
           r == RunHandler(SessionView(workflows, w, t.wf), events, t.event,
                           t.risk_result)
       IN  IF FALSE
           THEN /\ response' = Some([code |-> 500, body |-> [detail |-> "IntegrityError"]])
                /\ UNCHANGED <<workflows, events, created_at>>
           ELSE /\ workflows' =
                      Save(workflows,
                           IF t.wf = None THEN r.workflows[w]
                           ELSE FlushUpdate(workflows[w], t.wf[1], r.workflows[w]))
                /\ events' = r.events
                /\ InsertedAt(StrictClock)
                /\ response' = Some([code |-> 202, body |-> [status |-> "ok",
                                                            processed |-> t.event.event]])
    /\ tx' = [tx EXCEPT ![h] = None]
    /\ UNCHANGED <<manual_decisions, risk>>

TxCommit(h) ==
    /\ IsSome(tx[h])
    /\ LET t == tx[h][1]
           w == WorkflowIdOf(t.event)
           r == RunHandler(SessionView(workflows, w, t.wf), events, t.event,
                           t.risk_result)
       IN  IF t.wf = None /\ w \in DOMAIN workflows
           THEN /\ response' = Some([code |-> 500, body |-> [detail |-> "IntegrityError"]])
                /\ UNCHANGED <<workflows, events, created_at>>
           ELSE /\ workflows' =
                      Save(workflows,
                           IF t.wf = None THEN r.workflows[w]
                           ELSE FlushUpdate(workflows[w], t.wf[1], r.workflows[w]))
                /\ events' = r.events
                /\ InsertedAt(StrictClock)
                /\ response' = Some([code |-> 202, body |-> [status |-> "ok",
                                                            processed |-> t.event.event]])
    /\ tx' = [tx EXCEPT ![h] = None]
    /\ UNCHANGED <<manual_decisions, risk>>

NextConc ==
    \/ \E h \in Tasks : TxBegin(h, ConcRequests, ConcOutcomes, MaxConc)
    \/ \E h \in Tasks : TxCommit(h)

SpecConc == Init /\ [][NextConc]_vars

(* ---------- queries ---------- *)

\* the payload of the most recent decision.finalised event of the workflow,
\* or nothing when the ledger holds none for it
get_latest_decision(evs, workflow_id) ==
    IF DecisionIdx(evs, workflow_id) = {} THEN None
    ELSE Some(evs[Max(DecisionIdx(evs, workflow_id))].payload)

\* GET /workflow/{workflow_id} (the timestamps of the row are left out)
\* mutant: the query answers with the cached field of the workflow row
get_workflow_cached(wfs, evs, workflow_id) ==
    IF workflow_id \notin DOMAIN wfs
    THEN [code |-> 404, body |-> [detail |-> "workflow not found"]]
    ELSE LET wf == wfs[workflow_id]
             latest_decision == get_latest_decision(evs, workflow_id)
         IN  [code |-> 200,
              body |-> [id |-> wf.id, tenant_id |-> wf.tenant_id, state |-> wf.state,
                        decision |-> wf.decision,
                        decision_confidence |->
                            IF IsSome(latest_decision)
                            THEN Some(latest_decision[1].decision.confidence) ELSE None,
                        requires_human |->
                            IF IsSome(latest_decision)
                            THEN Some(latest_decision[1].decision.requires_human)
                            ELSE None,
                        risk_score |-> wf.risk_score, risk_band |-> wf.risk_band,
                        data |-> wf.data,
                        latest_decision_event |-> latest_decision]]

get_workflow(wfs, evs, workflow_id) ==
    IF workflow_id \notin DOMAIN wfs
    THEN [code |-> 404, body |-> [detail |-> "workflow not found"]]
    ELSE LET wf == wfs[workflow_id]
             latest_decision == get_latest_decision(evs, workflow_id)
         IN  [code |-> 200,
              body |-> [id |-> wf.id, tenant_id |-> wf.tenant_id, state |-> wf.state,
                        decision |->
                            IF IsSome(latest_decision)
                            THEN latest_decision[1].decision.outcome ELSE None,
                        decision_confidence |->
                            IF IsSome(latest_decision)
                            THEN Some(latest_decision[1].decision.confidence) ELSE None,
                        requires_human |->
                            IF IsSome(latest_decision)
                            THEN Some(latest_decision[1].decision.requires_human)
                            ELSE None,
                        risk_score |-> wf.risk_score, risk_band |-> wf.risk_band,
                        data |-> wf.data,
                        latest_decision_event |-> latest_decision]]

\* .order_by(WorkflowEvent.created_at.asc()): the k-th index is the k-th oldest
Ascending(S) ==
    [k \in 1..Cardinality(S) |-> CHOOSE i \in S : Cardinality({j \in S : j <= i}) = k]

\* one entry of the timeline, built from the decision event e
\* (policy, subject and service_version are constant or opaque: left out)
TimelineEntry(e) ==
    LET p == e.payload
    IN  [decision_id |-> p.decision_id,
         timestamp |-> e.id,
         outcome |-> p.decision.outcome,
         confidence |-> p.decision.confidence,
         requires_human |-> p.decision.requires_human,
         can_proceed |-> p.decision.can_proceed,
         reason_codes |-> p.reason_codes,
         risk_summary |-> p.risk_summary,
         authority |-> [decided_by |-> p.authority.decided_by,
                        is_override |-> GetOr(p.authority.override, FALSE)],
         lineage |-> p.lineage]

\* GET /investigator/workflows/{workflow_id}/decisions
\* (the detail of the 404 is the text followed by the workflow id: two fields)
\* mutant: the events come back newest first
get_decision_timeline_desc(evs, workflow_id) ==
    LET idx == Ascending(DecisionIdx(evs, workflow_id))
        n == Len(idx)
        decisions == [k \in 1..n |-> TimelineEntry(evs[idx[n + 1 - k]])]
    IN  IF n = 0
        THEN [code |-> 404,
              body |-> [detail |-> "No decisions found for workflow",
                        workflow_id |-> workflow_id]]
        ELSE [code |-> 200,
              body |-> [workflow_id |-> workflow_id,
                        decision_count |-> Len(decisions),
                        current_decision |-> decisions[Len(decisions)],
                        timeline |-> decisions,
                        has_overrides |->
                            \E k \in DOMAIN decisions :
                                decisions[k].authority.is_override]]

get_decision_timeline(evs, workflow_id) ==
    LET idx == Ascending(DecisionIdx(evs, workflow_id))
        decisions == [k \in 1..Len(idx) |-> TimelineEntry(evs[idx[k]])]
    IN  IF Len(idx) = 0
        THEN [code |-> 404,
              body |-> [detail |-> "No decisions found for workflow",
                        workflow_id |-> workflow_id]]
        ELSE [code |-> 200,
              body |-> [workflow_id |-> workflow_id,
                        decision_count |-> Len(decisions),
                        current_decision |-> decisions[Len(decisions)],
                        timeline |-> decisions,
                        has_overrides |->
                            \E k \in DOMAIN decisions :
                                decisions[k].authority.is_override]]

\* a query writes nothing: only its reply changes
GetWorkflow(Ws) ==
    \E workflow_id \in Ws :
        /\ response' = Some(get_workflow(workflows, events, workflow_id))
        /\ UNCHANGED <<workflows, events, created_at, manual_decisions, tx, risk>>

GetDecisionTimeline(Ws) ==
    \E workflow_id \in Ws :
        /\ response' = Some(get_decision_timeline(events, workflow_id))
        /\ UNCHANGED <<workflows, events, created_at, manual_decisions, tx, risk>>

\* the requests and the risk engine's answers of the queried runs: those of
\* ConcRequests, overrides to review or without a decision, and results that
\* recommend a review or are degraded
QueryRequests ==
    ConcRequests
    \cup RequestsOf({Typed(T_override_dotted)},
                    PayloadsOverride({Some("t1")}, {Some("w1")},
                                     {None, Some("review")}),
                    {None})

QueryOutcomes == ConcOutcomes \cup {Response(200, Some(RR_review)), O_connect_error}

\* the operations of one tenant on one workflow, each followed by any query
NextQuery ==
    \/ SelfieUploaded(QueryRequests, MaxQuery)
    \/ IdUploaded(QueryRequests, MaxQuery)
    \/ RiskEvaluate(QueryRequests, QueryOutcomes, MaxQuery)
    \/ OverrideApplied(QueryRequests, MaxQuery)
    \/ ManualDecision({"w1"}, MaxQuery)
    \/ GetWorkflow(WorkflowIds)
    \/ GetDecisionTimeline(WorkflowIds)

SpecQuery == Init /\ [][NextQuery]_vars

(* ---------- the decision queries on a coarse clock ---------- *)

\* the rows of  select(WorkflowEvent).where(...).order_by(created_at)  for the
\* events S: S in an order the stamps allow; the order of rows with the same
\* created_at is the database's choice
OrderByCreatedAt(S, stamps, descending) ==
    {rows \in [1..Cardinality(S) -> S] :
        /\ \A k, l \in DOMAIN rows : k # l => rows[k] # rows[l]
        /\ \A k, l \in DOMAIN rows :
              k < l => IF descending THEN stamps[rows[k]] >= stamps[rows[l]]
                       ELSE stamps[rows[k]] <= stamps[rows[l]]}

\* GET /investigator/workflows/{workflow_id}/decisions, given the rows of its
\* query; the timestamp of an entry is the created_at of its event
get_decision_timeline_of(evs, stamps, workflow_id, rows) ==
    LET decisions == [k \in 1..Len(rows) |->
                         [TimelineEntry(evs[rows[k]])
                             EXCEPT !.timestamp = stamps[rows[k]]]]
    IN  IF Len(rows) = 0
        THEN [code |-> 404,
              body |-> [detail |-> "No decisions found for workflow",
                        workflow_id |-> workflow_id]]
        ELSE [code |-> 200,
              body |-> [workflow_id |-> workflow_id,
                        decision_count |-> Len(decisions),
                        current_decision |-> decisions[Len(decisions)],
                        timeline |-> decisions,
                        has_overrides |->
                            \E k \in DOMAIN decisions :
                                decisions[k].authority.is_override]]

\* GET /investigator/workflows/{workflow_id}/decisions/current, given the rows
\* of its query: latest_event = result.scalars().first()
\* (policy and subject are constant or opaque: left out)
get_current_decision(evs, stamps, workflow_id, rows) ==
    IF Len(rows) = 0
    THEN [code |-> 404,
          body |-> [detail |-> "No decision found for workflow",
                    workflow_id |-> workflow_id]]
    ELSE LET p == evs[rows[1]].payload
         IN  [code |-> 200,
              body |-> [workflow_id |-> workflow_id,
                        decision_id |-> p.decision_id,
                        timestamp |-> stamps[rows[1]],
                        outcome |-> p.decision.outcome,
                        confidence |-> p.decision.confidence,
                        requires_human |-> p.decision.requires_human,
                        can_proceed |-> p.decision.can_proceed,
                        reason_codes |-> p.reason_codes,
                        risk_summary |-> p.risk_summary,
                        authority |-> p.authority,
                        lineage |-> p.lineage]]

\* risk evaluations and overrides of one tenant on one workflow
ClockRequests ==
    {ev \in ConcRequests : Route(ev) \in {T_risk_evaluate, T_override_applied}}

RiskEvaluateAt(Rs, Os, Ts, bound) ==
    /\ CommitCount < bound
    /\ \E ev \in Rs, o \in Os :
          Route(ev) = T_risk_evaluate /\ IngestAt(ev, call_riskbrain(o), Ts)

OverrideAppliedAt(Rs, Ts, bound) ==
    /\ CommitCount < bound
    /\ \E ev \in Rs : Route(ev) = T_override_applied /\ IngestAt(ev, RR_degraded, Ts)

GetDecisionTimelineOf(Ws) ==
    \E workflow_id \in Ws :
        \E rows \in OrderByCreatedAt(DecisionIdx(events, workflow_id), created_at,
                                     FALSE) :
            /\ response' = Some(get_decision_timeline_of(events, created_at,
                                                         workflow_id, rows))
            /\ UNCHANGED <<workflows, events, created_at, manual_decisions, tx, risk>>

GetCurrentDecision(Ws) ==
    \E workflow_id \in Ws :
        \E rows \in OrderByCreatedAt(DecisionIdx(events, workflow_id), created_at,
                                     TRUE) :
            /\ response' = Some(get_current_decision(events, created_at,
                                                     workflow_id, rows))
            /\ UNCHANGED <<workflows, events, created_at, manual_decisions, tx, risk>>

\* decisions of one workflow on a clock that may stand still, each followed
\* by either decision query
NextClock ==
    \/ RiskEvaluateAt(ClockRequests, ConcOutcomes, CoarseClock, MaxClock)
    \/ OverrideAppliedAt(ClockRequests, CoarseClock, MaxClock)
    \/ GetDecisionTimelineOf({"w1"})
    \/ GetCurrentDecision({"w1"})

SpecClock == Init /\ [][NextClock]_vars

(* ---------- the risk engine's functions, applied ---------- *)

\* the engine is called on any scores in [0,1] and any jurisdiction
InitRisk ==
    /\ workflows = [w \in {} |-> NewWorkflow(w, "t1")]
    /\ events = <<>>
    /\ created_at = <<>>
    /\ manual_decisions = <<>>
    /\ response = None
    /\ tx = [h \in Tasks |-> None]
    /\ risk \in {RiskInput(s, j) : s \in Scores, j \in Jurisdictions}

\* fusion.fuse_scores(fraud, aml, credit, liquidity, jurisdiction)
FuseScores ==
    /\ Len(risk.composites) < MaxCalls
    /\ LET r == fuse_scores(risk.scores, risk.jurisdiction)
       IN  risk' = [risk EXCEPT !.composites = Append(@, r.composite),
                                !.scores = r.scores]
    /\ UNCHANGED <<workflows, events, created_at, manual_decisions, response, tx>>

\* TuringRiskBrain.evaluate: the level of the four scores
DetermineRiskLevel ==
    /\ risk.level = None
    /\ risk' = [risk EXCEPT !.level =
                    Some(_determine_risk_level(risk.scores.fraud, risk.scores.aml,
                                              risk.scores.credit,
                                              risk.scores.liquidity))]
    /\ UNCHANGED <<workflows, events, created_at, manual_decisions, response, tx>>

\* decision.decide(assessment), for an assessment of any level
Decide ==
    /\ risk.decision = None
    /\ \E risk_level \in RiskLevels, aml_score \in {None, Some(risk.scores.aml)} :
          risk' = [risk EXCEPT !.decision =
                      Some([assessment |-> [overall_risk |-> risk_level,
                                            jurisdiction |-> risk.jurisdiction,
                                            aml_score |-> aml_score],
                            result |-> decide([overall_risk |-> risk_level,
                                               jurisdiction |-> risk.jurisdiction,
                                               aml_score |-> aml_score])])]
    /\ UNCHANGED <<workflows, events, created_at, manual_decisions, response, tx>>

NextRisk ==
    \/ FuseScores
    \/ DetermineRiskLevel
    \/ Decide

SpecRisk == InitRisk /\ [][NextRisk]_vars

(* ====================== properties ====================== *)

AllRequests == Requests \cup ChainRequests

OkBody(t) == [status |-> "ok", processed |-> t]

\* the last request was answered 202 ok by the handler of type t
Answered(t) == response = Some([code |-> 202, body |-> OkBody(t)])

\* the events of the ledger that a risk evaluation appended
IsRiskRecord(e) == e.event_type = "risk_evaluated"

IsDecision(e) == e.event_type = DECISION_EVENT

IsOverrideDecision(e) == IsDecision(e) /\ e.payload.authority.override = Some(TRUE)

\* requests that reach handle_risk_evaluation with a workflow id
RiskRequests ==
    {ev \in AllRequests : Route(ev) = T_risk_evaluate /\ IsSome(ev.payload.workflow_id)}

C2_DegradedEmitsNoDecision ==
    [][(/\ Answered(T_risk_evaluate)'
        /\ events' # events
        /\ ~HasFinalRisk(events'[Len(events')].payload.result))
       => LET w == events'[Len(events')].workflow_id
          IN  /\ workflows'[w].state = "risk_failed"
              /\ IsSome(workflows'[w].data.risk_error)
              /\ DecisionCount(events', w) = DecisionCount(events, w)]_vars

\* C3: two risk evaluations of the same workflow with identical inputs and
\* the same client correlation id leave a single decision.finalised event:
\* no two automated decisions of a workflow carry the same client correlation
\* id and record the same signals.
C3_NoDoubleFireOnRetry ==
    \A i, j \in DOMAIN events :
        (/\ i < j
         /\ IsDecision(events[i]) /\ IsDecision(events[j])
         /\ ~IsOverrideDecision(events[i]) /\ ~IsOverrideDecision(events[j])
         /\ events[i].workflow_id = events[j].workflow_id
         /\ events[i].payload.correlation_id = ClientCorrelation
         /\ events[j].payload.correlation_id = ClientCorrelation)
        => events[i + 1].payload.signals # events[j + 1].payload.signals

\* C4: every decision.finalised event with authority.override true has a
\* non-null lineage.supersedes_decision_id that is the decision_id of a
\* decision.finalised event of the same workflow appended strictly earlier.
C4_OverrideLineage ==
    \A i \in DOMAIN events :
        IsOverrideDecision(events[i]) =>
            /\ events[i].payload.lineage.supersedes_decision_id # None
            /\ \E j \in 1..(i - 1) :
                  /\ IsDecision(events[j])
                  /\ events[j].workflow_id = events[i].workflow_id
                  /\ Some(events[j].payload.decision_id) =
                         events[i].payload.lineage.supersedes_decision_id

\* an override has just committed and its decision.finalised event is in the
\* ledger, after the automated decision of the same workflow
C4_Witness ==
    /\ Answered(T_override_applied)
    /\ \E i \in DOMAIN events :
          /\ IsOverrideDecision(events[i])
          /\ \E j \in 1..(i - 1) :
                /\ IsDecision(events[j]) /\ ~IsOverrideDecision(events[j])
                /\ events[j].workflow_id = events[i].workflow_id

\* the latest decision.finalised event of a workflow that has one
LatestDecision(w) == events[Max(DecisionIdx(events, w))]

\* C5: for every workflow that has a decision.finalised event, the workflow's
\* decision field equals the outcome of its latest decision.finalised event.
C5_CacheCoherence ==
    \A w \in DOMAIN workflows :
        DecisionIdx(events, w) # {} =>
            workflows[w].decision = LatestDecision(w).payload.decision.outcome

\* the number of events of workflow w that satisfy P
CountOf(w, P(_)) ==
    Cardinality({i \in DOMAIN events : events[i].workflow_id = w /\ P(events[i])})

IsSuccessfulRiskRecord(e) == IsRiskRecord(e) /\ HasFinalRisk(e.payload.result)

IsOverrideRecord(e) == e.event_type = "override.applied"

\* C6: for every workflow, the number of decision.finalised events equals the
\* number of successful risk evaluations plus the number of overrides
\* processed for it; failed risk evaluations contribute nothing.
C6_DecisionAuthorityCount ==
    \A w \in WorkflowIds :
        DecisionCount(events, w) =
            CountOf(w, IsSuccessfulRiskRecord) + CountOf(w, IsOverrideRecord)

\* the decision.finalised event of workflow w that precedes position i
PreviousDecisionIdx(w, i) == Max({j \in DecisionIdx(events, w) : j < i})

OverrideRequests == {ev \in AllRequests : Route(ev) = T_override_applied}

\* the reply to the request leaves the workflow store and the ledger as they are
NoWrite(r) == r.workflows = workflows /\ r.events = events

\* C8: in every reachable state, an override_applied event for an existing
\* workflow without a decision.finalised event is answered with an error and
\* writes nothing: no event is appended and no workflow changes.
C8_OverrideWithoutDecisionRejected ==
    \A ev \in OverrideRequests :
        (/\ IsSome(ev.payload.workflow_id)
         /\ ev.payload.workflow_id[1] \in DOMAIN workflows
         /\ DecisionIdx(events, ev.payload.workflow_id[1]) = {})
        => LET r == ingest_event(workflows, events, ev, RR_degraded)
           IN  r.response.code = 500 /\ NoWrite(r)

\* an override was just rejected for want of a prior decision, on a workflow
\* that exists
C8_Witness ==
    /\ response = Some([code |-> 500,
                        body |-> [detail |-> "ValueError: No original decision found"]])
    /\ \E w \in DOMAIN workflows : DecisionIdx(events, w) = {}

ValidDecisions == {"approve", "review", "decline"}

\* C9: in every reachable state, an override_applied event without a
\* workflow_id, or without a decision among approve, review and decline, is
\* rejected before any write.
C9_InvalidOverrideRejected ==
    \A ev \in OverrideRequests :
        (\/ ev.payload.workflow_id = None
         \/ ev.payload.decision \notin {Some(d) : d \in ValidDecisions})
        => LET r == ingest_event(workflows, events, ev, RR_degraded)
           IN  r.response.code # 202 /\ NoWrite(r)

\* the type a request supplies: the one the ingress picks, else an empty one
SuppliedType(ev) ==
    IF Truthy(RequestType(ev)) THEN RequestType(ev)
    ELSE IF IsSome(ev.event_type) THEN ev.event_type ELSE ev.event

\* requests that supply a type whose normalised form is not a known type
UnknownTypeRequests ==
    {ev \in AllRequests :
        /\ IsSome(SuppliedType(ev))
        /\ Normalize(SuppliedType(ev)[1]) \notin EVENT_HANDLERS}

IgnoredReply(ev, r) ==
    /\ r.response = [code |-> 202,
                     body |-> [status |-> "ignored",
                               reason |-> <<"unknown_event_type:">>
                                           \o Normalize(SuppliedType(ev)[1])]]
    /\ NoWrite(r)

\* C10 as stated: every inbound event whose normalised type is not one of the
\* five known types is answered 202 ignored with the reason
\* unknown_event_type:<T>, and nothing is written.
C10_UnknownTypeIgnored ==
    \A ev \in UnknownTypeRequests :
        IgnoredReply(ev, ingest_event(workflows, events, ev, RR_degraded))

\* C10 amended: every inbound event that carries payload.tenant_id and a
\* non-empty type whose normalised form is not one of the five known types is
\* answered 202 ignored with the reason unknown_event_type:<T>, and nothing is
\* written.
C10_UnknownTypeIgnoredWithTenant ==
    \A ev \in UnknownTypeRequests :
        (IsSome(ev.payload.tenant_id) /\ Truthy(RequestType(ev)))
        => IgnoredReply(ev, ingest_event(workflows, events, ev, RR_degraded))

\* an event of an unknown type was just ignored while the store is not empty
C10_Witness ==
    /\ response = Some([code |-> 202,
                        body |-> [status |-> "ignored",
                                  reason |-> <<"unknown_event_type:", "banana", "_",
                                               "peeled">>]])
    /\ events # <<>>
    /\ DOMAIN workflows # {}

\* the results of call_riskbrain that the handling of the request may see
RiskResultsFor(ev) ==
    IF Route(ev) = T_risk_evaluate THEN RiskResults ELSE {RR_degraded}

\* requests without payload.tenant_id, or with neither event nor event_type
InvalidRequests ==
    {ev \in AllRequests :
        ev.payload.tenant_id = None \/ (ev.event = None /\ ev.event_type = None)}

\* C11: in every reachable state, a request whose payload has no tenant_id, or
\* that has neither event nor event_type, is answered 400 by the ingress
\* itself (no handler runs), and the workflow store and the event ledger are
\* unchanged.
C11_InvalidRequestRejected ==
    \A ev \in InvalidRequests :
        LET r == ingest_event(workflows, events, ev, RR_approve)
        IN  /\ r.response.code = 400
            /\ r.response.body.detail \in
                   {"payload.tenant_id is required",
                    "Either 'event' or 'event_type' is required"}
            /\ NoWrite(r)

\* a request was just answered 400 while the workflow store and the ledger
\* hold committed data
C11_Witness ==
    /\ IsSome(response)
    /\ response[1].code = 400
    /\ events # <<>>
    /\ DOMAIN workflows # {}

\* requests that carry a tenant and a non-empty type
DispatchedRequests ==
    {ev \in AllRequests : IsSome(ev.payload.tenant_id) /\ Truthy(RequestType(ev))}

\* the request ev with its type spelled t in the legacy field
Respelled(ev, t) == [ev EXCEPT !.event = Some(t), !.event_type = None]

\* u is t with every dot replaced by an underscore
IsUnderscored(u, t) ==
    /\ Len(u) = Len(t)
    /\ \A i \in DOMAIN t : u[i] = (IF t[i] = "." THEN "_" ELSE t[i])

\* C12: in every reachable state the ingress routes by the normalised type:
\* a request of type override.applied has the same outcome (reply and writes)
\* as the same request of type override_applied, a request whose type has the
\* underscore form of a known type is never ignored, and a 202 reply of a
\* known type is {status: ok, processed: T} where T is the supplied type with
\* every dot replaced by an underscore.
C12_RoutesByNormalisedType ==
    \A ev \in DispatchedRequests :
      \A rr \in RiskResultsFor(ev) :
        LET t == RequestType(ev)[1]
            r == ingest_event(workflows, events, ev, rr)
        IN  /\ t = T_override_dotted =>
                   r = ingest_event(workflows, events,
                                    Respelled(ev, T_override_applied), rr)
            /\ (\E u \in EVENT_HANDLERS : IsUnderscored(u, t)) =>
                   /\ r.response.code \in {202, 500}
                   /\ r.response.code = 202 =>
                          /\ r.response.body.status = "ok"
                          /\ IsUnderscored(r.response.body.processed, t)

\* an override sent as override.applied was just processed by the override
\* handler and answered with the underscore form (every override request of
\* ChainRequests is spelled with the dot)
C12_Witness ==
    /\ response = Some([code |-> 202, body |-> OkBody(<<"override", "_", "applied">>)])
    /\ events # <<>>
    /\ IsOverrideRecord(events[Len(events)])
    /\ \A ev \in ChainRequests :
          Route(ev) = T_override_applied => RequestType(ev) = Some(T_override_dotted)

\* the event at position i of the ledger evs is the one emit_decision_finalised
\* appends there: for some risk result and correlation id, the call on the
\* ledger before position i and on the workflow as committed gives the ledger
\* up to position i
EmittedByAuthority(evs, wfs, i) ==
    \E rr \in RiskResults, c \in Opt({ClientCorrelation}) :
        SubSeq(evs, 1, i) =
            emit_decision_finalised(SubSeq(evs, 1, i - 1), wfs[evs[i].workflow_id],
                                    rr, c)

\* C13: single emitter: every decision.finalised event that a step adds to
\* the ledger is appended by emit_decision_finalised; no operation appends a
\* decision.finalised event by another path.
C13_SingleEmitter ==
    [][\A i \in DOMAIN events' :
          (i > Len(events) /\ IsDecision(events'[i]))
          => EmittedByAuthority(events', workflows', i)]_vars

\* the workflow state a handler leaves with the record it appends last
StateWith(e) ==
    CASE e.event_type = "selfie_uploaded" -> "selfie_uploaded"
      [] e.event_type = "id_uploaded" -> "id_uploaded"
      [] e.event_type = "match_completed" ->
            (IF e.payload.match = Some(TRUE) THEN "match_verified" ELSE "match_failed")
      [] e.event_type = "risk_evaluated" ->
            (IF HasFinalRisk(e.payload.result) THEN "risk_evaluated" ELSE "risk_failed")
      [] e.event_type = "override.applied" -> "override_applied"
      [] OTHER -> "none"

\* the number of events a handler appends with the record e
AppendsWith(e) == IF e.event_type \in {"risk_evaluated", "override.applied"} THEN 2 ELSE 1

\* C14: handler atomicity: a step of an event handler either persists
\* nothing (the handler failed before commit, at any statement of its
\* transaction or at the commit itself, and the caller gets an error), or it
\* persists the workflow change and all the event appends of the handler
\* together: the handler's own record as the last event, the
\* decision.finalised event before it when the handler emits one, and the
\* workflow row in the state the handler sets.
C14_HandlerAtomicity ==
    [][(manual_decisions' = manual_decisions /\ IsSome(response'))
       => \/ /\ response'[1].code # 202
             /\ workflows' = workflows
             /\ events' = events
          \/ /\ response'[1].code = 202
             /\ response'[1].body.status = "ignored"
             /\ workflows' = workflows
             /\ events' = events
          \/ /\ response'[1].code = 202
             /\ response'[1].body.status = "ok"
             /\ Len(events') > Len(events)
             /\ LET e == events'[Len(events')]
                IN  /\ Len(events') = Len(events) + AppendsWith(e)
                    /\ AppendsWith(e) = 2 =>
                           /\ IsDecision(events'[Len(events') - 1])
                           /\ events'[Len(events') - 1].workflow_id = e.workflow_id
                    /\ e.workflow_id \in DOMAIN workflows'
                    /\ workflows'[e.workflow_id].state = StateWith(e)
                    /\ \A w \in DOMAIN workflows' \ {e.workflow_id} :
                          w \in DOMAIN workflows /\ workflows'[w] = workflows[w]]_vars

\* a handler was just aborted by a data-store failure, on a store that holds
\* committed data
C14_Witness ==
    /\ response = Some([code |-> 500, body |-> [detail |-> "OperationalError"]])
    /\ events # <<>>
    /\ DOMAIN workflows # {}

\* C15: the event ledger is append-only: every step leaves every committed
\* event in place with the same id, workflow_id, event_type and payload; an
\* override neither modifies nor removes the decision.finalised event it
\* supersedes.
C15_LedgerAppendOnly ==
    [][/\ Len(events') >= Len(events)
       /\ SubSeq(events', 1, Len(events)) = events]_vars

\* an override has just committed and the decision it supersedes is in the
\* ledger, before the override's decision and without a mark of the override
C15_Witness ==
    /\ Answered(T_override_applied)
    /\ \E j \in DOMAIN events :
          /\ IsOverrideDecision(events[j])
          /\ j + 1 = Len(events)
          /\ \E i \in 1..(j - 1) :
                /\ IsDecision(events[i])
                /\ Some(events[i].payload.decision_id) =
                       events[j].payload.lineage.supersedes_decision_id
                /\ events[i].payload.lineage.overridden_by = None

\* C16: per-workflow serialisation: whenever a task commits a handler's
\* transaction, the committed workflow store and ledger are those of running
\* the handler on the store as committed at that moment, that is, of running
\* the concurrent handlers one after the other in the order of their
\* commits (the order the ledger records); no commit discards or ignores a
\* change another handler committed after this one read the record.
C16_PerWorkflowSerialisation ==
    [][\A h \in Tasks :
          (IsSome(tx[h]) /\ tx'[h] = None)
          => LET t == tx[h][1]
                 serial == RunHandler(workflows, events, t.event, t.risk_result)
             IN  /\ workflows' = serial.workflows
                 /\ events' = serial.events]_vars

RiskStates == {"risk_evaluated", "risk_failed"}

\* the workflow's state has been risk_evaluated or risk_failed: it is now, or
\* the ledger holds the risk_evaluated record that the handler appends in the
\* transaction that sets either state
HasReachedRiskState(w) ==
    \/ w \in DOMAIN workflows /\ workflows[w].state \in RiskStates
    \/ \E i \in DOMAIN events : events[i].workflow_id = w /\ IsRiskRecord(events[i])

\* C17: in every reachable state, a workflow whose state is or has ever been
\* risk_evaluated or risk_failed has at least one decision.finalised event.
C17_DecisionAfterRiskState ==
    \A w \in WorkflowIds : HasReachedRiskState(w) => DecisionCount(events, w) >= 1

\* a workflow went to risk_failed on a degraded result, has left that state
\* since, and has a decision.finalised event
C17_Witness ==
    \E w \in DOMAIN workflows :
        /\ workflows[w].state \notin RiskStates
        /\ \E i \in DOMAIN events :
              /\ events[i].workflow_id = w
              /\ IsRiskRecord(events[i])
              /\ ~HasFinalRisk(events[i].payload.result)
        /\ DecisionCount(events, w) >= 1

\* C18: decision_id is unique: no two decision.finalised events of the ledger
\* carry the same decision_id, two events of two risk evaluations of the same
\* workflow included.
C18_DecisionIdUnique ==
    \A i, j \in DOMAIN events :
        (i < j /\ IsDecision(events[i]) /\ IsDecision(events[j]))
        => events[i].payload.decision_id # events[j].payload.decision_id

\* a result that matches the success schema of the risk service
WellFormed(rr) ==
    /\ IsSome(rr.final_risk)
    /\ IsSome(rr.final_risk[1].score) /\ IsSome(rr.final_risk[1].band)
    /\ IsSome(rr.decision)
    /\ IsSome(rr.decision[1].recommendation)
    /\ IsSome(rr.decision[1].requires_human)

\* C19: the risk client returns the degraded result {error:
\* riskbrain_unavailable} for every outcome of the call that is not a
\* well-formed success, and the service's result for a well-formed success:
\* every result that call_riskbrain has returned to a risk evaluation (the
\* result recorded in the ledger) is the degraded result or matches the
\* success schema.
C19_RiskClientDegrades ==
    \A i \in DOMAIN events :
        IsRiskRecord(events[i]) =>
            \/ events[i].payload.result = RR_degraded
            \/ WellFormed(events[i].payload.result)

\* C20: a call of the manual-decision endpoint that records a ManualDecision
\* sets the workflow's cached decision to the recorded decision and appends
\* no event: the ledger, and with it the set of decision.finalised events of
\* every workflow, is the same after the call as before it.
C20_ManualDecisionAppendsNoEvent ==
    [][manual_decisions' # manual_decisions
       => /\ Len(manual_decisions') = Len(manual_decisions) + 1
          /\ SubSeq(manual_decisions', 1, Len(manual_decisions)) = manual_decisions
          /\ LET md == manual_decisions'[Len(manual_decisions')]
             IN  /\ md.workflow_id \in DOMAIN workflows
                 /\ workflows'[md.workflow_id].decision = Some(md.decision)
                 /\ \A w \in DOMAIN workflows' \ {md.workflow_id} :
                       workflows'[w] = workflows[w]
          /\ events' = events
          /\ \A w \in WorkflowIds :
                DecisionIdx(events', w) = DecisionIdx(events, w)]_vars

\* a manual decision was just recorded for a workflow that has a
\* decision.finalised event with another outcome
C20_Witness ==
    /\ manual_decisions # <<>>
    /\ IsSome(response) /\ response[1].code = 200
    /\ LET md == manual_decisions[Len(manual_decisions)]
       IN  /\ workflows[md.workflow_id].state = "manual_decision_applied"
           /\ DecisionIdx(events, md.workflow_id) # {}
           /\ LatestDecision(md.workflow_id).payload.decision.outcome # Some(md.decision)

\* C21: the workflow-by-id query answers with the outcome of the workflow's
\* latest decision.finalised event, whatever the cached decision field of the
\* row holds, and with no decision when the ledger has none for the workflow.
C21_QueryReadsLedger ==
    \A w \in DOMAIN workflows :
        LET r == get_workflow(workflows, events, w)
        IN  /\ r.code = 200
            /\ r.body.decision =
                   IF DecisionIdx(events, w) = {} THEN None
                   ELSE LatestDecision(w).payload.decision.outcome

\* the query was just answered with the ledger's outcome for a workflow whose
\* cached field a manual decision has since changed
C21_Witness ==
    \E w \in DOMAIN workflows :
        /\ workflows[w].state = "manual_decision_applied"
        /\ DecisionIdx(events, w) # {}
        /\ workflows[w].decision # LatestDecision(w).payload.decision.outcome
        /\ response = Some(get_workflow(workflows, events, w))
        /\ response[1].body.decision = LatestDecision(w).payload.decision.outcome

\* C22: the decision timeline query returns exactly the decision.finalised
\* events of the requested workflow, oldest first, with decision_count equal
\* to their number; has_overrides is true if and only if one of them is an
\* override decision, which is the case if and only if an override.applied
\* event was recorded for the workflow.
C22_TimelineIsLedger ==
    \A w \in WorkflowIds :
        LET r == get_decision_timeline(events, w)
            D == DecisionIdx(events, w)
        IN  /\ r.code = 200 <=> D # {}
            /\ r.code = 200 =>
                 LET t == r.body.timeline
                 IN  /\ r.body.decision_count = Cardinality(D)
                     /\ Len(t) = Cardinality(D)
                     /\ {t[k].timestamp : k \in DOMAIN t} = D
                     /\ \A k, l \in DOMAIN t :
                            k < l => t[k].timestamp < t[l].timestamp
                     /\ \A k \in DOMAIN t :
                            LET e == events[t[k].timestamp]
                            IN  /\ t[k].decision_id = e.payload.decision_id
                                /\ t[k].outcome = e.payload.decision.outcome
                                /\ t[k].lineage = e.payload.lineage
                     /\ r.body.has_overrides
                            <=> \E i \in D : IsOverrideDecision(events[i])
                     /\ r.body.has_overrides
                            <=> \E i \in DOMAIN events :
                                    /\ events[i].workflow_id = w
                                    /\ IsOverrideRecord(events[i])

\* the timeline of a workflow with an automated decision and an override of it
\* was just returned
C22_Witness ==
    /\ response = Some(get_decision_timeline(events, "w1"))
    /\ response[1].code = 200
    /\ response[1].body.decision_count = 2
    /\ response[1].body.has_overrides
    /\ ~response[1].body.timeline[1].authority.is_override

\* C23: for four component scores in [0,1] and any jurisdiction, every call
\* of fuse_scores returns a value in [0,1], and every call returns the same
\* value: the one the function yields for the scores and the jurisdiction the
\* caller holds.
C23_FusionDeterministicInRange ==
    /\ \A k \in DOMAIN risk.composites :
          /\ risk.composites[k] >= 0
          /\ risk.composites[k] <= 100 * One
          /\ risk.composites[k] = risk.composites[1]
          /\ risk.composites[k] = fuse_scores(risk.scores, risk.jurisdiction).composite
    /\ \A d \in DOMAIN risk.scores : risk.scores[d] \in 0..One

\* fuse_scores was called twice on scores that the jurisdiction adjusts
C23_Witness ==
    /\ Len(risk.composites) = MaxCalls
    /\ Upper(risk.jurisdiction) = "EU"
    /\ risk.scores.aml = 5000
    /\ _apply_jurisdiction_adjustments(risk.scores, risk.jurisdiction).adjusted
           # risk.scores

\* the AML threshold the claim gives for each jurisdiction
C24_Threshold(j) ==
    CASE j = "AU" -> 5500
      [] j = "EU" -> 5000
      [] j = "GCC" -> 4500
      [] OTHER -> 6000

\* C24: for every band and every jurisdiction among default, AU, EU and GCC,
\* the decision engine returns decline for critical, review for high, approve
\* for low, and for medium review exactly when aml_score is greater than the
\* jurisdiction's AML threshold (default 0.60, AU 0.55, EU 0.50, GCC 0.45),
\* approve otherwise.
C24_DecisionRecommendation ==
    IsSome(risk.decision) =>
        LET a == risk.decision[1].assessment
            d == risk.decision[1].result.decision
        IN  (a.jurisdiction \in {"default", "AU", "EU", "GCC"} /\ IsSome(a.aml_score))
            => /\ a.overall_risk = "critical" => d = "decline"
               /\ a.overall_risk = "high" => d = "review"
               /\ a.overall_risk = "low" => d = "approve"
               /\ a.overall_risk = "medium" =>
                     d = IF a.aml_score[1] > C24_Threshold(a.jurisdiction)
                         THEN "review" ELSE "approve"

\* the band of a composite score (in 1/1000000) by the claim's intervals
C25_Band(composite) ==
    IF composite < 40 * One THEN "low"
    ELSE IF composite < 60 * One THEN "medium"
    ELSE IF composite < 80 * One THEN "high"
    ELSE "critical"

\* the composite of the scores under the weights 0.35, 0.30, 0.20, 0.15
C25_Composite(s) == s.fraud * 35 + s.aml * 30 + s.credit * 20 + s.liquidity * 15

\* C25: for every four component scores, the band the risk engine assigns is
\* the band of their weighted composite: low for [0, 0.40), medium for
\* [0.40, 0.60), high for [0.60, 0.80), critical for [0.80, 1.00].
C25_BandOfWeightedComposite ==
    IsSome(risk.level) => risk.level[1] = C25_Band(C25_Composite(risk.scores))

WorkflowStates ==
    {"pending", "selfie_uploaded", "id_uploaded", "match_verified", "match_failed",
     "risk_evaluated", "risk_failed", "override_applied"}

\* C26: the state of every workflow is one of pending, selfie_uploaded,
\* id_uploaded, match_verified, match_failed, risk_evaluated, risk_failed and
\* override_applied, whatever operations (event handlers, manual decisions)
\* have run.
C26_StateIsOneOfEight ==
    \A w \in DOMAIN workflows : workflows[w].state \in WorkflowStates

\* the events of workflow w up to index n that satisfy P
C27_Before(w, n, P(_)) ==
    {j \in 1..n : events[j].workflow_id = w /\ P(events[j])}

IsAutomatedDecision(e) == IsDecision(e) /\ ~IsOverrideDecision(e)

\* C27: in the ledger order of a workflow every decision.finalised event
\* follows the typed record of the transition that triggered it: up to any
\* override decision there are at least as many earlier override.applied
\* records as override decisions, and up to any other decision at least as
\* many earlier risk_evaluated records as such decisions.
C27_DecisionFollowsTransitionRecord ==
    \A i \in DOMAIN events :
        LET w == events[i].workflow_id
        IN  /\ IsOverrideDecision(events[i]) =>
                   Cardinality(C27_Before(w, i - 1, IsOverrideRecord))
                       >= Cardinality(C27_Before(w, i, IsOverrideDecision))
            /\ IsAutomatedDecision(events[i]) =>
                   Cardinality(C27_Before(w, i - 1, IsRiskRecord))
                       >= Cardinality(C27_Before(w, i, IsAutomatedDecision))

\* C28: every decision.finalised event of the ledger has a decision.outcome
\* among approve, review and decline.
C28_OutcomeIsValid ==
    \A i \in DOMAIN events :
        IsDecision(events[i]) =>
            events[i].payload.decision.outcome
                \in {Some("approve"), Some("review"), Some("decline")}

\* C29: in every decision.finalised event, emitted after a risk evaluation or
\* after an override, decision.can_proceed is true if and only if
\* decision.outcome is approve or review.
C29_CanProceedIffApproveOrReview ==
    \A i \in DOMAIN events :
        IsDecision(events[i]) =>
            (events[i].payload.decision.can_proceed
                <=> events[i].payload.decision.outcome
                        \in {Some("approve"), Some("review")})

\* the ledger holds a review from the risk engine, which may proceed, and an
\* override of it without a decision, which may not
C29_Witness ==
    \E i, j \in DOMAIN events :
        /\ i < j
        /\ IsDecision(events[i]) /\ ~IsOverrideDecision(events[i])
        /\ events[i].payload.decision.outcome = Some("review")
        /\ events[i].payload.decision.can_proceed
        /\ IsOverrideDecision(events[j])
        /\ events[j].payload.decision.outcome = None
        /\ ~events[j].payload.decision.can_proceed

\* a step that appended the risk_evaluated record of workflow w
RiskRecordAppended(w) ==
    /\ Len(events') > Len(events)
    /\ events'[Len(events')].workflow_id = w
    /\ IsRiskRecord(events'[Len(events')])

OverrideRecordAppended(w) ==
    /\ Len(events') > Len(events)
    /\ events'[Len(events')].workflow_id = w
    /\ IsOverrideRecord(events'[Len(events')])

\* C31: after an accepted override_applied event the workflow is in state
\* override_applied, its decision is the payload's decision, requires_human is
\* false, risk_score and risk_band are unchanged, and the workflow has exactly
\* one more decision.finalised event: its latest, with the payload's decision
\* as outcome, authority.override true, confidence 1.0 and the override reason
\* as its only reason code.
C31_OverrideEffect ==
    [][\A w \in WorkflowIds :
          OverrideRecordAppended(w) =>
              LET rec == events'[Len(events')].payload
                  new == workflows'[w]
                  d == events'[Max(DecisionIdx(events', w))]
              IN  /\ w \in DOMAIN workflows
                  /\ new.state = "override_applied"
                  /\ new.decision = rec.new_decision
                  /\ new.requires_human = FALSE
                  /\ new.risk_score = workflows[w].risk_score
                  /\ new.risk_band = workflows[w].risk_band
                  /\ DecisionCount(events', w) = DecisionCount(events, w) + 1
                  /\ \A v \in WorkflowIds \ {w} :
                        DecisionCount(events', v) = DecisionCount(events, v)
                  /\ Max(DecisionIdx(events', w)) > Len(events)
                  /\ d.payload.decision.outcome = rec.new_decision
                  /\ d.payload.authority.override = Some(TRUE)
                  /\ d.payload.decision.confidence = 100
                  /\ d.payload.reason_codes = <<rec.reason>>]_vars

\* an approved workflow with a risk score has just been overridden to decline
\* for the reason the operator gave
C31_Witness ==
    /\ events # <<>>
    /\ IsOverrideRecord(events[Len(events)])
    /\ events[Len(events)].payload.reason = "manual_fraud_flag"
    /\ events[Len(events)].payload.original_decision = Some("approve")
    /\ LET wf == workflows[events[Len(events)].workflow_id]
       IN  /\ wf.state = "override_applied"
           /\ wf.decision = Some("decline")
           /\ wf.risk_score = Some(12)
           /\ wf.risk_band = Some("low")

\* the step was served by the handler of type t, which appended exactly one
\* event, of type name, and left the risk fields of the event's workflow as
\* they were (as those of a new workflow when the event created it)
CaptureStep(t, name) ==
    response' = Some([code |-> 202, body |-> OkBody(t)]) =>
        /\ Len(events') = Len(events) + 1
        /\ SubSeq(events', 1, Len(events)) = events
        /\ LET e == events'[Len(events')]
               new == workflows'[e.workflow_id]
               old == IF e.workflow_id \in DOMAIN workflows
                      THEN workflows[e.workflow_id]
                      ELSE NewWorkflow(e.workflow_id, new.tenant_id)
           IN  /\ e.event_type = name
               /\ new.risk_score = old.risk_score
               /\ new.risk_band = old.risk_band
               /\ new.decision = old.decision
               /\ new.requires_human = old.requires_human

\* C32: the handlers of selfie_uploaded, id_uploaded and match_completed each
\* append exactly one event, of their own type and never a decision.finalised
\* event, and leave risk_score, risk_band, decision and requires_human
\* unchanged; a step that adds a decision.finalised event is a step of the
\* risk_evaluate or of the override_applied handler.
C32_CaptureHandlersFrame ==
    [][/\ CaptureStep(T_selfie_uploaded, "selfie_uploaded")
       /\ CaptureStep(T_id_uploaded, "id_uploaded")
       /\ CaptureStep(T_match_completed, "match_completed")
       /\ (\E w \in WorkflowIds : DecisionCount(events', w) # DecisionCount(events, w))
              => \/ response' = Some([code |-> 202, body |-> OkBody(T_risk_evaluate)])
                 \/ response' = Some([code |-> 202,
                                      body |-> OkBody(T_override_applied)])]_vars

\* an id_uploaded event has just been recorded for a workflow that keeps the
\* score, band and decision of its risk evaluation
C32_Witness ==
    /\ Answered(T_id_uploaded)
    /\ events # <<>>
    /\ events[Len(events)].event_type = "id_uploaded"
    /\ LET wf == workflows[events[Len(events)].workflow_id]
       IN  /\ wf.state = "id_uploaded"
           /\ wf.decision = Some("approve")
           /\ wf.risk_score = Some(12)
           /\ wf.risk_band = Some("low")

\* the step was served by the handler of type t and left the workflow of the
\* event it appended in the state given by post
PostState(t, post(_)) ==
    response' = Some([code |-> 202, body |-> OkBody(t)]) =>
        /\ Len(events') > Len(events)
        /\ LET e == events'[Len(events')]
           IN  workflows'[e.workflow_id].state = post(e)

C33_Selfie(e) == "selfie_uploaded"

C33_Id(e) == "id_uploaded"

C33_Match(e) ==
    IF e.payload.match = Some(TRUE) THEN "match_verified" ELSE "match_failed"

\* C33: after selfie_uploaded the state is selfie_uploaded, after id_uploaded
\* it is id_uploaded, and after match_completed it is match_verified when the
\* payload's match is true and match_failed when it is false, whatever the
\* state was before and also when the event created the workflow.
C33_CapturePostState ==
    [][/\ PostState(T_selfie_uploaded, C33_Selfie)
       /\ PostState(T_id_uploaded, C33_Id)
       /\ PostState(T_match_completed, C33_Match)]_vars

\* a failed match has just been recorded for a workflow that was overridden
\* before
C33_Witness ==
    /\ Answered(T_match_completed)
    /\ events # <<>>
    /\ events[Len(events)].event_type = "match_completed"
    /\ events[Len(events)].payload.match = Some(FALSE)
    /\ workflows[events[Len(events)].workflow_id].state = "match_failed"
    /\ \E i \in DOMAIN events :
          /\ IsOverrideRecord(events[i])
          /\ events[i].workflow_id = events[Len(events)].workflow_id

\* C34: whatever event is processed next, every workflow keeps its tenant_id,
\* also when the event's payload names another tenant for the same
\* workflow_id, and a workflow that the event creates has the tenant_id of
\* that event's payload.
C34_TenantImmutable ==
    \A ev \in TenantRequests :
        LET r == ingest_event(workflows, events, ev, RR_approve)
        IN  /\ DOMAIN workflows \subseteq DOMAIN r.workflows
            /\ \A w \in DOMAIN r.workflows :
                  r.workflows[w].tenant_id =
                      IF w \in DOMAIN workflows THEN workflows[w].tenant_id
                      ELSE ev.payload.tenant_id[1]

\* an event that names tenant t2 has just been applied to a workflow of
\* tenant t1, which is still of tenant t1
C34_Witness ==
    /\ Answered(T_id_uploaded)
    /\ events # <<>>
    /\ events[Len(events)].event_type = "id_uploaded"
    /\ events[Len(events)].payload.tenant_id = Some("t2")
    /\ workflows[events[Len(events)].workflow_id].tenant_id = "t1"

\* requests that carry both event and event_type, with different values
AmbiguousRequests ==
    {ev \in AllRequests :
        IsSome(ev.event) /\ IsSome(ev.event_type) /\ ev.event # ev.event_type}

\* C35: in every reachable state a request that carries both event and
\* event_type with different values is rejected by the ingress (400) without
\* a handler being dispatched and without any write.
C35_AmbiguousTypeRejected ==
    \A ev \in AmbiguousRequests :
        LET r == ingest_event(workflows, events, ev, RR_approve)
        IN  /\ r.response.code = 400
            /\ NoWrite(r)

\* C36: every event of the ledger carries the tenant_id of the workflow it
\* belongs to, whatever tenant the inbound payload named, and so does the
\* payload of every decision.finalised event.
C36_EventsCarryWorkflowTenant ==
    \A i \in DOMAIN events :
        /\ events[i].workflow_id \in DOMAIN workflows
        /\ events[i].tenant_id = workflows[events[i].workflow_id].tenant_id
        /\ IsDecision(events[i]) =>
               events[i].payload.tenant_id = workflows[events[i].workflow_id].tenant_id

\* a selfie_uploaded event that names tenant t1 was applied to a workflow of
\* tenant t2 and recorded under t2
C36_Witness ==
    \E i \in DOMAIN events :
        /\ events[i].event_type = "selfie_uploaded"
        /\ events[i].payload.tenant_id = Some("t1")
        /\ events[i].tenant_id = "t2"
        /\ workflows[events[i].workflow_id].state = "selfie_uploaded"
        /\ workflows[events[i].workflow_id].selfie_session_id
               = events[i].payload.session_id

\* complete requests of the three capture types and of risk_evaluate
C37_Requests == {ev \in StateRequests : Route(ev) # T_override_applied}

\* the state the handler of the request assigns
C37_PostState(ev, risk_result) ==
    CASE Route(ev) = T_selfie_uploaded -> "selfie_uploaded"
      [] Route(ev) = T_id_uploaded -> "id_uploaded"
      [] Route(ev) = T_match_completed ->
            IF ev.payload.match = Some(TRUE) THEN "match_verified" ELSE "match_failed"
      [] Route(ev) = T_risk_evaluate ->
            IF HasFinalRisk(risk_result) THEN "risk_evaluated" ELSE "risk_failed"

\* C37: no handler is guarded by the state of the workflow and no state is
\* terminal: in every reachable state, whatever the state of the workflow
\* (absent, hence created in pending, or any state a handler or the manual
\* decision left), each of selfie_uploaded, id_uploaded, match_completed and
\* risk_evaluate is accepted, appends to the ledger and leaves the workflow
\* in the post-state of its own handler; a successful risk_evaluate writes
\* its recommendation over the decision of the record, also over an override.
C37_NoStateGuard ==
    \A ev \in C37_Requests, risk_result \in {RR_approve, RR_decline, RR_degraded} :
        LET r == ingest_event(workflows, events, ev, risk_result)
            w == ev.payload.workflow_id[1]
        IN  /\ r.response = [code |-> 202, body |-> OkBody(Route(ev))]
            /\ Len(r.events) > Len(events)
            /\ w \in DOMAIN r.workflows
            /\ r.workflows[w].state = C37_PostState(ev, risk_result)
            /\ (Route(ev) = T_risk_evaluate /\ HasFinalRisk(risk_result)) =>
                   r.workflows[w].decision = risk_result.decision[1].recommendation

\* a risk evaluation was processed after an override: the workflow is back in
\* risk_evaluated and its record holds the engine's decision, not the override
C37_Witness ==
    \E i, j \in DOMAIN events :
        /\ i < j
        /\ j = Len(events)
        /\ IsOverrideRecord(events[i])
        /\ IsRiskRecord(events[j])
        /\ events[i].workflow_id = events[j].workflow_id
        /\ workflows[events[j].workflow_id].state = "risk_evaluated"
        /\ workflows[events[j].workflow_id].decision
               # events[i].payload.new_decision

\* task h ends a transaction that began when the workflow had no row
CreatingCommit(h) ==
    /\ IsSome(tx[h])
    /\ tx[h][1].wf = None
    /\ tx'[h] = None

\* C38: there is one workflow row per workflow id, and of the handlers that
\* found no row for a new workflow id only the first to commit creates it:
\* a handler whose INSERT meets the row of another handler commits nothing,
\* neither a workflow change nor its events.
C38_SingleCreator ==
    [][/\ \A w \in DOMAIN workflows' : workflows'[w].id = w
       /\ \A h \in Tasks :
             CreatingCommit(h) =>
                 LET w == WorkflowIdOf(tx[h][1].event)
                 IN  IF w \in DOMAIN workflows
                     THEN /\ workflows' = workflows
                          /\ events' = events
                          /\ response' = Some([code |-> 500,
                                               body |-> [detail |-> "IntegrityError"]])
                     ELSE /\ DOMAIN workflows' = DOMAIN workflows \cup {w}
                          /\ Len(events') > Len(events)]_vars

\* two tasks found no row for w1; one created it, the other failed and the
\* store holds the row and the event of the first only
C38_Witness ==
    /\ response = Some([code |-> 500, body |-> [detail |-> "IntegrityError"]])
    /\ DOMAIN workflows = {"w1"}
    /\ \A h \in Tasks : tx[h] = None
    /\ Len(events) = 1
    /\ events[1].event_type = "selfie_uploaded"
    /\ workflows["w1"].state = "selfie_uploaded"

\* C39: handle_override_applied never creates a workflow: an override for a
\* workflow id without a record fails with "Workflow not found" and leaves
\* the workflow store and the ledger as they were; each of the other four
\* handlers, when its payload is complete, creates the record, and what it
\* commits is what it commits on a store that already holds the record in
\* state pending.
C39_OverrideNeverCreates ==
    \A ev \in TenantRequests :
        LET w == ev.payload.workflow_id[1]
            r == ingest_event(workflows, events, ev, RR_approve)
        IN  w \notin DOMAIN workflows =>
                IF Route(ev) = T_override_applied
                THEN /\ r.response = [code |-> 500,
                                      body |-> [detail |-> "ValueError: Workflow not found"]]
                     /\ NoWrite(r)
                ELSE LET pending == NewWorkflow(w, ev.payload.tenant_id[1])
                         p == ingest_event(Save(workflows, pending), events, ev,
                                           RR_approve)
                     IN  /\ pending.state = "pending"
                         /\ IF r.response.code = 202
                            THEN /\ w \in DOMAIN r.workflows
                                 /\ r.workflows = p.workflows
                                 /\ r.events = p.events
                            ELSE NoWrite(r)

\* an override for w2 was refused while w2 has no record and another
\* workflow does
C39_Witness ==
    /\ response = Some([code |-> 500,
                        body |-> [detail |-> "ValueError: Workflow not found"]])
    /\ "w1" \in DOMAIN workflows
    /\ "w2" \notin DOMAIN workflows

\* what both replies tell of a decision
C40_Shown(d) ==
    [decision_id |-> d.decision_id, timestamp |-> d.timestamp,
     outcome |-> d.outcome, confidence |-> d.confidence,
     requires_human |-> d.requires_human, can_proceed |-> d.can_proceed,
     reason_codes |-> d.reason_codes, risk_summary |-> d.risk_summary,
     lineage |-> d.lineage]

\* C40: the two decision queries agree: in every reachable state in which
\* the workflow has a decision.finalised event, whatever rows the two queries
\* get, the decision the current-decision query returns is current_decision
\* of the timeline query, which is the last element of its timeline, also
\* when decision.finalised events of the workflow have the same created_at.
C40_DecisionQueriesAgree ==
    \A w \in WorkflowIds :
        LET D == DecisionIdx(events, w)
        IN  D # {} =>
                \A desc \in OrderByCreatedAt(D, created_at, TRUE),
                   asc \in OrderByCreatedAt(D, created_at, FALSE) :
                    LET current == get_current_decision(events, created_at, w, desc)
                        timeline == get_decision_timeline_of(events, created_at, w,
                                                             asc)
                    IN  /\ current.code = 200
                        /\ timeline.code = 200
                        /\ timeline.body.current_decision
                               = timeline.body.timeline[Len(timeline.body.timeline)]
                        /\ C40_Shown(current.body)
                               = C40_Shown(timeline.body.current_decision)

====
